---- MODULE Spec2Model ----
(***************************************************************************)
(* Leonard: agent orchestration loop.                                      *)
(*                                                                         *)
(* State machine of one LeonardOrchestrator process (engine/orchestrator), *)
(* its ConversationContext / EntityStore / ReferenceResolver (context/),   *)
(* the registered tools (tools/filesystem.py through tools/executor.py),   *)
(* the verified primitives of tools/file_ops.py, and the ActionGuard.      *)
(*                                                                         *)
(* Paths are tuples of names: <<"tmp","d","a.txt">> is /tmp/d/a.txt.  A    *)
(* path whose first name is "." is relative (resolved against the working  *)
(* directory of the process); <<".">> is the empty string "".              *)
(***************************************************************************)
EXTENDS Integers, Sequences, FiniteSets, TLC

VARIABLES
    files,          \* set of paths that exist on disk as regular files
    dirs,           \* set of paths that exist on disk as directories
    store,          \* EntityStore table "entities": set of entity rows
    nextId,         \* next entity id to issue (uuid4 in the source)
    convState,      \* EntityStore table "conversation_state": conv -> row or NoRow
    curConv,        \* LeonardOrchestrator._conversation_id
    pending,        \* LeonardOrchestrator._context._pending_action
    toolsEnabled,   \* LeonardOrchestrator.tools_enabled
    disabledTools,  \* names of registry tools with enabled = False
    msgCount,       \* history: user messages per conversation since creation/clear
    sent,           \* history: user messages received by the process
    lastTurn,       \* history: what the last chat turn did
    lastOp,         \* history: last verified primitive / tracking call and its result
    wr,             \* the last write_file call, its step, and the content at its target path
    inflight,       \* turns of chat suspended at an await: set of [req, conv, utt]
    pm,             \* ProcessManager: models, instances, _lock and the calls of start/stop in progress
    routing,        \* Router.route: the last answer of the router model, the workers offered, the decision
    registry,       \* ModelRegistry: models, the registry file, and the last call with its result
    resolved,       \* the last call of ConversationContext.resolve: what it was asked, what it saw, its result
    mv,              \* history: the state before a move and how far the move and its return have got
    conversation,  \* LeonardOrchestrator.conversation: who wrote each message of the one history list, and in which request
    downloads  \* api/routes/models.py active_downloads: the trackers, and the background tasks of the download requests

vars == <<files, dirs, store, nextId, convState, curConv, pending,
          toolsEnabled, disabledTools, msgCount, sent, lastTurn, lastOp, wr, inflight, pm, routing, registry, resolved, mv, conversation, downloads>>

----------------------------------------------------------------------------
(* Bounds of the model *)

MaxIds == 4
MaxTurns == 2

\* messages of one conversation when a reply comes two turns after its prompt
MaxStaleTurns == 3

\* _build_messages hands the model the last ten messages of the history
HistoryWindow == 10

----------------------------------------------------------------------------
(* Values *)

None == "none"
NoPath == <<"?">>
EmptyPath == <<".">>
NoEntity == [id |-> 0, conv |-> "none", path |-> <<"?">>, name |-> "none", kind |-> "none", sel |-> <<>>]
NoRow == [laf |-> 0, lafo |-> 0, sel |-> 0, turn |-> 0]

\* conversation ids a client sends; the orchestrator starts with a fresh uuid
Convs == {"c1", "c2"}
InitialConv == "c0"
AllConvs == Convs \cup {InitialConv}

Root == <<>>
Tmp == <<"tmp">>
Home == <<"home", "u">>
Desktop == <<"home", "u", "Desktop">>
DesktopDone == <<"home", "u", "Desktop", "Done">>
Cwd == <<"srv">>
DirD == <<"tmp", "d">>
FileA == <<"tmp", "d", "a.txt">>
FileB == <<"tmp", "d", "b.txt">>
EtcHosts == <<"etc", "hosts">>
VarTmpFile == <<"var", "tmp", "a+.txt">>
CwdFileA == <<"srv", "a.txt">>

\* file names in the order Python's sorted() gives them
NameOrder == <<"Desktop", "Done", "a+.txt", "a.txt", "b.txt", "d", "etc", "home", "hosts", "n.txt", "srv", "tmp", "tmpw", "u", "var">>

----------------------------------------------------------------------------
(* Path arithmetic: os.path / pathlib *)

\* the element of a one-element set: Only({e(x) : x \in {v}}) is e with x naming the value v
Only(s) == CHOOSE x \in s : TRUE

IsRelative(p) == Len(p) > 0 /\ p[1] = "."

Resolved(p) == IF IsRelative(p) THEN Cwd \o Tail(p) ELSE p

Dirname(p) == IF Len(p) = 0 THEN p ELSE SubSeq(p, 1, Len(p) - 1)

Basename(p) == IF Len(p) = 0 THEN "" ELSE p[Len(p)]

Join(d, name) == d \o <<name>>

IsPrefix(r, p) == Len(r) <= Len(p) /\ SubSeq(p, 1, Len(r)) = r

Exists(fs, ds, p) == p \in fs \/ p \in ds

\* shutil.rmtree / rename of a subtree: every path at or below p
Below(S, p) == {q \in S : IsPrefix(p, q)}

Rebase(q, src, dst) == dst \o SubSeq(q, Len(src) + 1, Len(q))

Ancestors(p) == {SubSeq(p, 1, k) : k \in 0..(Len(p) - 1)}

----------------------------------------------------------------------------
(* User messages.  A message is the sequence of its lowercase,             *)
(* whitespace-separated tokens; a path written in a message is one token.  *)

Utterances ==
    { <<"hi">>, <<"yes">>, <<"no">>, <<"2">>, <<"last">>,
      <<"delete", "it">>,
      <<"rename", "it", "to", "b.txt">>,
      <<"delete", "the", "second", "one">>,
      <<"delete", "/etc/hosts">>,
      <<"delete", "/var/tmp/a+.txt">>,
      <<"delete", "/tmp/d/a.txt">>,
      <<"what's", "in", "/tmp/d">>,
      <<"delete", "folder", "done">> }

Contains(u, w) == \E i \in 1..Len(u) : u[i] = w

ContainsAny(u, W) == \E i \in 1..Len(u) : u[i] \in W

Bigram(u, A, B) == \E i \in 1..(Len(u) - 1) : u[i] \in A /\ u[i + 1] \in B

\* tokens that the regex /[^\s"']+ matches: absolute paths
PathTokens == {"/etc/hosts", "/var/tmp/a+.txt", "/tmp/d/a.txt", "/tmp/d"}

PathOfToken(t) ==
    CASE t = "/etc/hosts" -> EtcHosts
      [] t = "/var/tmp/a+.txt" -> VarTmpFile
      [] t = "/tmp/d/a.txt" -> FileA
      [] t = "/tmp/d" -> DirD
      [] OTHER -> NoPath

\* the part of a token matched by \b([a-zA-Z0-9_\-\.]+\.[a-zA-Z0-9]+)\b
\* ("a+.txt" has no match: "+" is outside the class and ".txt" starts at no \b)
FileNameInToken(t) ==
    CASE t = "/tmp/d/a.txt" -> "a.txt"
      [] t = "b.txt" -> "b.txt"
      [] OTHER -> None

\* tokens matched by /[^\s"']+\.[a-zA-Z0-9]+ : absolute path with an extension
AbsPathWithExtension(t) == t \in {"/var/tmp/a+.txt", "/tmp/d/a.txt"}

\* str.capitalize()
Capitalize(w) == IF w = "done" THEN "Done" ELSE w

\* str.lower() of a file name
Lower(n) == CASE n = "Done" -> "done" [] n = "Desktop" -> "desktop" [] OTHER -> n

\* the least element of a set of positions
MinOf(H) == IF H = {} THEN 0 ELSE CHOOSE i \in H : \A j \in H : i <= j

FirstIndex(u, S) == CHOOSE i \in 1..Len(u) : u[i] \in S /\ \A j \in 1..(i - 1) : u[j] \notin S

is_confirmation(u) ==
    u \in { <<"yes">>, <<"y">>, <<"ok">>, <<"sure">>, <<"do", "it">>, <<"proceed">>,
            <<"confirm">>, <<"si">>, <<"vai">>, <<"fallo">>, <<"conferma">>, <<"procedi">> }

is_cancellation(u) ==
    u \in { <<"no">>, <<"n">>, <<"cancel">>, <<"stop">>, <<"abort">>, <<"nevermind">>,
            <<"never", "mind">>, <<"annulla">>, <<"no", "grazie">>, <<"ferma">> }

NoOrdinal == 0 - 9

\* the ordinals dict of _parse_ordinal_selection, in insertion order
OrdinalWords ==
    << [w |-> "first", i |-> 0], [w |-> "1st", i |-> 0], [w |-> "primo", i |-> 0],
       [w |-> "second", i |-> 1], [w |-> "2nd", i |-> 1], [w |-> "secondo", i |-> 1],
       [w |-> "third", i |-> 2], [w |-> "3rd", i |-> 2], [w |-> "terzo", i |-> 2],
       [w |-> "fourth", i |-> 3], [w |-> "4th", i |-> 3], [w |-> "quarto", i |-> 3],
       [w |-> "fifth", i |-> 4], [w |-> "5th", i |-> 4], [w |-> "quinto", i |-> 4],
       [w |-> "last", i |-> 0 - 1], [w |-> "ultimo", i |-> 0 - 1] >>

DigitValue(t) == CASE t = "1" -> 1 [] t = "2" -> 2 [] t = "3" -> 3 [] OTHER -> 0

_parse_ordinal_selection(u) ==
    IF Len(u) = 1 /\ DigitValue(u[1]) > 0
    THEN DigitValue(u[1]) - 1
    ELSE LET hits == {k \in 1..Len(OrdinalWords) : Contains(u, OrdinalWords[k].w)}
         IN IF hits = {} THEN NoOrdinal
            ELSE OrdinalWords[CHOOSE k \in hits : \A j \in hits : k <= j].i

_matches_delete(u) == ContainsAny(u, {"delete", "elimina", "rimuovi", "remove", "cancella"})

_matches_list(u) ==
    \/ Bigram(u, {"what's", "whats"}, {"in"})
    \/ Bigram(u, {"list", "show"}, {"them", "it", "those", "these"})
    \/ u \in {<<"list">>, <<"show">>}

_matches_organize(u) == ContainsAny(u, {"organiz", "organizza", "riorganizza", "reorganiz", "ordina", "riordina", "tidy", "sort"})

_matches_move(u) == ContainsAny(u, {"move", "sposta", "rename", "rinomina", "spostare", "renome"})

_matches_create_file(u) ==
    \E i \in 1..Len(u) : \E j \in (i + 1)..Len(u) :
        u[i] \in {"create", "crea", "nuovo", "new", "scrivi", "write"} /\ u[j] = "file"

_matches_create_folder(u) ==
    \E i \in 1..Len(u) : \E j \in (i + 1)..Len(u) :
        u[i] \in {"create", "crea", "nuovo", "new"} /\ u[j] \in {"folder", "cartella", "directory"}

_matches_read(u) ==
    \/ \E i \in 1..Len(u) : \E j \in (i + 1)..Len(u) :
           u[i] \in {"read", "leggi", "open", "apri", "show", "mostra"} /\ u[j] = "file"
    \/ Bigram(u, {"content", "contenuto"}, {"of", "del", "di"})

_looks_like_filesystem_intent(u) ==
    \/ _matches_delete(u) \/ _matches_list(u) \/ _matches_organize(u)
    \/ _matches_create_file(u) \/ _matches_create_folder(u)
    \/ _matches_read(u) \/ _matches_move(u)

_extract_action_verb(u) ==
    IF ContainsAny(u, {"delete", "elimina", "rimuovi"}) THEN "delete"
    ELSE IF ContainsAny(u, {"rename", "rinomina"}) THEN "rename"
    ELSE IF ContainsAny(u, {"move", "sposta"}) THEN "move"
    ELSE IF ContainsAny(u, {"read", "leggi", "open", "apri"}) THEN "read"
    ELSE "operate on"

_map_action_to_tool(action) ==
    CASE action = "delete" -> "delete_file"
      [] action \in {"rename", "move"} -> "move_file"
      [] action \in {"read", "open"} -> "read_file"
      [] action = "list" -> "list_directory"
      [] action = "organize" -> "organize_files"
      [] OTHER -> action

_message_has_explicit_path(u) == ContainsAny(u, PathTokens)

\* the four pronoun_patterns of _detect_tool_action_with_context
NeedsResolution(u) ==
    \/ Bigram(u, {"delete", "rename", "move", "open", "read"}, {"it", "that", "this"})
    \/ Bigram(u, {"delete", "elimina", "rimuovi"}, {"it", "that", "this", "quello"})
    \/ \E i \in 1..(Len(u) - 2) :
           u[i] \in {"delete", "elimina", "rimuovi"} /\ u[i + 1] \in {"the", "il"} /\ u[i + 2] = "file"
    \/ \E i \in 1..(Len(u) - 2) :
           u[i] \in {"rename", "rinomina"} /\ u[i + 1] \in {"it", "that", "this"} /\ u[i + 2] = "to"
    \/ Bigram(u, {"open", "apri", "read", "leggi"}, {"it", "that", "this"})
    \/ \E i \in 1..(Len(u) - 2) :
           u[i] \in {"open", "apri", "read", "leggi"} /\ u[i + 1] = "the" /\ u[i + 2] = "file"

\* the first ordinal_pattern: verb "the" ordinal-word; the value is the word
OrdinalPatternWord(u) ==
    LET hits == {i \in 1..(Len(u) - 2) :
                    /\ u[i] \in {"delete", "rename", "move", "open", "read"}
                    /\ u[i + 1] = "the"
                    /\ u[i + 2] \in {"first", "second", "third", "fourth", "fifth", "last",
                                     "1st", "2nd", "3rd", "4th", "5th"}}
    IN IF hits = {} THEN None
       ELSE u[(CHOOSE i \in hits : \A j \in hits : i <= j) + 2]

----------------------------------------------------------------------------
(* EntityStore (context/entities.py).  A store value S is the record       *)
(* [store, nextId, cs]: the entities table, the next id, the               *)
(* conversation_state table.  An entity row keeps id, conversation_id,     *)
(* absolute_path, display_name, kind and selection_ids.                    *)

EntityStore_get(S, id) ==
    IF \E e \in S.store : e.id = id THEN CHOOSE e \in S.store : e.id = id ELSE NoEntity

\* get_by_path returns the first row of get_all (ORDER BY created_at DESC, one
\* second resolution) with that path: any row with the path can come first
get_by_path(S, c, p) == {e \in S.store : e.conv = c /\ e.path = Resolved(p)}

get_all(S, c) == {e \in S.store : e.conv = c}

EntityStore_add(S, e) == [S EXCEPT !.store = {x \in S.store : x.id # e.id} \cup {e}]

EntityStore_remove(S, id) == [S EXCEPT !.store = {x \in S.store : x.id # id}]

clear_conversation_of_all(S, c) ==
    [S EXCEPT !.store = {}, !.cs = [x \in DOMAIN S.cs |-> NoRow]]

clear_conversation(S, c) ==
    [S EXCEPT !.store = {x \in S.store : x.conv # c}, !.cs[c] = NoRow]

get_turn_index(S, c) == S.cs[c].turn

increment_turn_twice(S, c) == [S EXCEPT !.cs[c].turn = S.cs[c].turn + 2]

increment_turn(S, c) == [S EXCEPT !.cs[c].turn = S.cs[c].turn + 1]

set_last_active_file(S, c, id) == [S EXCEPT !.cs[c].laf = id]

set_last_active_folder(S, c, id) == [S EXCEPT !.cs[c].lafo = id]

set_current_selection(S, c, id) == [S EXCEPT !.cs[c].sel = id]

get_last_active_file_of_any(S, c) ==
    IF \E e \in S.store : e.kind = "file"
    THEN CHOOSE e \in S.store : e.kind = "file" /\ \A f \in S.store : f.kind = "file" => e.id <= f.id
    ELSE NoEntity

get_last_active_file(S, c) == EntityStore_get(S, S.cs[c].laf)

get_last_active_folder(S, c) == EntityStore_get(S, S.cs[c].lafo)

get_current_selection(S, c) == EntityStore_get(S, S.cs[c].sel)

\* the entities of a selection, in order, skipping ids that are no longer stored
get_selection_items(S, selection) ==
    IF selection.id = 0 \/ selection.kind # "selection" THEN <<>>
    ELSE LET ids == SelectSeq(selection.sel, LAMBDA i : \E e \in S.store : e.id = i)
         IN [k \in 1..Len(ids) |-> EntityStore_get(S, ids[k])]

ConversationContext_get_selection_items(S, c) ==
    get_selection_items(S, get_current_selection(S, c))

----------------------------------------------------------------------------
(* ConversationContext tracking (context/conversation.py)                  *)

Entity_create(id, c, p, kind) ==
    [id |-> id, conv |-> c, path |-> Resolved(p), name |-> Basename(Resolved(p)),
     kind |-> kind, sel |-> <<>>]

Entity_create_selection(id, c, entities) ==
    [id |-> id, conv |-> c, path |-> Dirname(entities[1].path), name |-> "selection",
     kind |-> "selection", sel |-> [k \in 1..Len(entities) |-> entities[k].id]]

_set_active(S, c, e) ==
    IF e.kind = "file" THEN set_last_active_file(S, c, e.id)
    ELSE IF e.kind = "folder" THEN set_last_active_folder(S, c, e.id)
    ELSE S

\* the possible outcomes [S, e] of track_entity; none when the id bound is hit
track_entity(S, c, p, kind, set_active) ==
    LET existing == get_by_path(S, c, p)
    IN IF existing # {}
       THEN {[S |-> IF set_active THEN _set_active(S, c, e) ELSE S, e |-> e] : e \in existing}
       ELSE IF S.nextId > MaxIds THEN {}
       ELSE LET e == Entity_create(S.nextId, c, p, kind)
                S1 == [EntityStore_add(S, e) EXCEPT !.nextId = S.nextId + 1]
            IN {[S |-> IF set_active THEN _set_active(S1, c, e) ELSE S1, e |-> e]}

_create_selection(S, c, entities) ==
    IF S.nextId > MaxIds THEN {}
    ELSE LET sel == Entity_create_selection(S.nextId, c, entities)
         IN {set_current_selection([EntityStore_add(S, sel) EXCEPT !.nextId = S.nextId + 1], c, sel.id)}

\* track every path of a list in turn; R is a set of [S, es]
RECURSIVE TrackPaths(_, _, _, _, _, _)
TrackPaths(R, c, paths, kinds, set_active, k) ==
    IF k > Len(paths) THEN R
    ELSE TrackPaths(
            UNION {{[S |-> o.S, es |-> Append(r.es, o.e)] :
                        o \in track_entity(r.S, c, paths[k], kinds[k], set_active)} : r \in R},
            c, paths, kinds, set_active, k + 1)

\* output is [path, items]; an item is [name, is_dir]
_track_list_result(S, c, output) ==
    LET items == output.items
        paths == [k \in 1..Len(items) |-> Join(output.path, items[k].name)]
        kinds == [k \in 1..Len(items) |-> IF items[k].is_dir THEN "folder" ELSE "file"]
        tracked == TrackPaths({[S |-> S, es |-> <<>>]}, c, paths, kinds, FALSE, 1)
        withFolder == UNION {{[S |-> o.S, es |-> r.es] :
                                 o \in track_entity(r.S, c, output.path, "folder", TRUE)} : r \in tracked}
    IN UNION {IF Len(r.es) > 0 THEN _create_selection(r.S, c, r.es) ELSE {r.S} : r \in withFolder}

RECURSIVE RemoveTracked(_, _, _, _)
RemoveTracked(R, c, paths, k) ==
    IF k > Len(paths) THEN R
    ELSE RemoveTracked(
            UNION {IF get_by_path(S, c, paths[k]) = {} THEN {S}
                   ELSE {EntityStore_remove(S, e.id) : e \in get_by_path(S, c, paths[k])} : S \in R},
            c, paths, k + 1)

LastOf(seq) == IF Len(seq) = 0 THEN <<>> ELSE <<seq[Len(seq)]>>

\* output["matches"] of a search: the full paths of the matches
MatchPaths(output) == [k \in 1..Len(output.items) |-> Join(output.path, output.items[k].name)]

\* the possible stores after track_from_tool_result(result)
track_from_tool_result(S, c, result) ==
    LET fileKinds(paths) == [k \in 1..Len(paths) |-> "file"]
        track(paths) == {r.S : r \in TrackPaths({[S |-> S, es |-> <<>>]}, c, paths, fileKinds(paths), TRUE, 1)}
    IN CASE result.action = "list" -> _track_list_result(S, c, result.output)
         [] result.action \in {"create", "write", "append"} ->
                track(IF Len(result.after_paths) > 0 THEN result.after_paths ELSE result.changed)
         [] result.action = "read" -> track(<<result.output.path>>)
         [] result.action \in {"move", "copy"} ->
                track(IF Len(result.after_paths) > 0 THEN result.after_paths ELSE LastOf(result.changed))
         [] result.action = "search" ->
                UNION {IF Len(r.es) > 0 THEN _create_selection(r.S, c, r.es) ELSE {r.S}
                       : r \in TrackPaths({[S |-> S, es |-> <<>>]}, c, MatchPaths(result.output),
                                          fileKinds(MatchPaths(result.output)), FALSE, 1)}
         [] result.action = "delete" /\ Len(result.before_paths) > 0 ->
                RemoveTracked({S}, c, result.before_paths, 1)
         [] OTHER -> {S}

----------------------------------------------------------------------------
(* The disk: os / shutil / pathlib primitives over (files, dirs)           *)

NameIndex(n) == CHOOSE k \in 1..Len(NameOrder) : NameOrder[k] = n

\* sorted(dir_path.iterdir()) as a sequence of [name, is_dir]
SortedItems(fs, ds, p) ==
    LET kids == {q \in fs \cup ds : Len(q) = Len(p) + 1 /\ IsPrefix(p, q)}
        rank(q) == Cardinality({r \in kids : NameIndex(Basename(r)) < NameIndex(Basename(q))}) + 1
    IN [k \in 1..Cardinality(kids) |->
           LET q == CHOOSE r \in kids : rank(r) = k
           IN [name |-> Basename(q), is_dir |-> q \in ds]]

\* Path.mkdir(parents=True, exist_ok=True) of the parent of p; fails on a file in the way
ParentsCreatable(fs, p) == Ancestors(p) \cap fs = {}

WithParents(ds, p) == ds \cup Ancestors(p)

\* unlink or shutil.rmtree
Removed(fs, ds, p) ==
    [files |-> fs \ Below(fs, p), dirs |-> ds \ Below(ds, p)]

\* shutil.move(src, dst) for an existing src: [files, dirs, ok]
shutil_move(fs, ds, src, dst) ==
    LET real == IF dst \in ds /\ src # dst THEN Join(dst, Basename(src)) ELSE dst
        fail == [files |-> fs, dirs |-> ds, ok |-> FALSE]
    IN IF src = dst THEN [files |-> fs, dirs |-> ds, ok |-> TRUE]
       ELSE IF dst \in ds /\ Exists(fs, ds, real) THEN fail
       ELSE IF src \in ds /\ real \in fs THEN fail
       ELSE IF IsPrefix(src, real) THEN fail
       ELSE [files |-> (fs \ Below(fs, src)) \cup {Rebase(q, src, real) : q \in Below(fs, src)},
             dirs |-> (ds \ Below(ds, src)) \cup {Rebase(q, src, real) : q \in Below(ds, src)},
             ok |-> TRUE]

\* shutil.copy2 / shutil.copytree for an existing src: [files, dirs, ok]
shutil_copy(fs, ds, src, dst) ==
    LET real == IF src \in fs /\ dst \in ds THEN Join(dst, Basename(src)) ELSE dst
        fail == [files |-> fs, dirs |-> ds, ok |-> FALSE]
    IN IF src \in ds /\ Exists(fs, ds, dst) THEN fail
       ELSE IF src \in fs /\ (real = src \/ real \in ds) THEN fail
       ELSE [files |-> fs \cup {Rebase(q, src, real) : q \in Below(fs, src)},
             dirs |-> ds \cup {Rebase(q, src, real) : q \in Below(ds, src)},
             ok |-> TRUE]

----------------------------------------------------------------------------
(* FileOperations (tools/file_ops.py) and FilesystemVerifier               *)
(* Each operation yields [files, dirs, result]; result is a ToolResult.    *)

ALLOWED_ROOTS == {Home, Tmp}

PROTECTED_PATHS_without_home == {Root, <<"Users">>, <<"System">>, <<"Library">>, <<"Applications">>}

PROTECTED_PATHS == {Root, <<"Users">>, <<"System">>, <<"Library">>, <<"Applications">>, Home}

_ensure_allowed_everywhere(p) == TRUE

_ensure_allowed(p) == \E root \in ALLOWED_ROOTS : IsPrefix(root, Resolved(p))

NoOutput == [path |-> NoPath, items |-> <<>>]

ToolResult(status, action, output, before, after, changed, verified) ==
    [status |-> status, action |-> action, output |-> output, before_paths |-> before,
     after_paths |-> after, changed |-> changed, verification |-> verified]

NoResult == ToolResult("none", "none", NoOutput, <<>>, <<>>, <<>>, "absent")

_verification_failure(action, changed) ==
    ToolResult("error", action, NoOutput, changed, <<>>, changed, "failed")

StatusOf(passed) == IF passed THEN "success" ELSE "error"

VerdictOf(passed) == IF passed THEN "passed" ELSE "failed"

verify_move(fs, ds, source, destination) ==
    ~Exists(fs, ds, source) /\ Exists(fs, ds, destination)

verify_copy(fs, ds, source, destination) ==
    Exists(fs, ds, destination) /\ Exists(fs, ds, source)

verify_delete(fs, ds, target) == ~Exists(fs, ds, target)

verify_create_dir(fs, ds, target) == target \in ds

verify_write(fs, ds, target) == target \in fs

\* fnmatch of a file name against one glob pattern (Path.glob, one level)
fnmatch(name, pat) ==
    CASE pat = "*" -> TRUE
      [] pat = "*.txt" -> name \in {"a+.txt", "a.txt", "b.txt", "n.txt"}
      [] pat = "a*" -> name \in {"a+.txt", "a.txt"}
      [] OTHER -> name = pat

Range(seq) == {seq[k] : k \in 1..Len(seq)}

\* dir_path.glob(pat), listed in name order, as full paths
Glob(fs, ds, d, pat) ==
    [k \in 1..Len(SelectSeq(SortedItems(fs, ds, d), LAMBDA it : fnmatch(it.name, pat))) |->
        Join(d, SelectSeq(SortedItems(fs, ds, d), LAMBDA it : fnmatch(it.name, pat))[k].name)]

GlobFiles(fs, ds, d, pat) == SelectSeq(Glob(fs, ds, d, pat), LAMBDA q : q \in fs)

FileOperations_read_file(fs, ds, path) ==
    [files |-> fs, dirs |-> ds,
     result |-> IF ~_ensure_allowed(path) THEN _verification_failure("read", <<path>>)
                ELSE IF Resolved(path) \notin fs
                     THEN _verification_failure("read", <<Resolved(path)>>)
                ELSE ToolResult("success", "read", [path |-> Resolved(path), items |-> <<>>],
                                <<>>, <<>>, <<>>, "passed")]

FileOperations_list_directory(fs, ds, path) ==
    LET p == Resolved(path)
        same(r) == [files |-> fs, dirs |-> ds, result |-> r]
    IN IF ~_ensure_allowed(path) THEN same(_verification_failure("list", <<path>>))
       ELSE IF p \notin ds THEN same(_verification_failure("list", <<p>>))
       ELSE same(ToolResult("success", "list", [path |-> p, items |-> SortedItems(fs, ds, p)],
                            <<>>, <<>>, <<>>, "passed"))

FileOperations_write_file(fs, ds, path) ==
    LET p == Resolved(path)
        same(r) == [files |-> fs, dirs |-> ds, result |-> r]
    IN IF ~_ensure_allowed(path) THEN same(_verification_failure("write", <<path>>))
       ELSE IF ~ParentsCreatable(fs, p) THEN same(_verification_failure("write", <<path>>))
       ELSE IF p \in ds
            THEN [files |-> fs, dirs |-> WithParents(ds, p),
                  result |-> _verification_failure("write", <<path>>)]
       ELSE LET fs1 == fs \cup {p}
                ds1 == WithParents(ds, p)
                passed == verify_write(fs1, ds1, p)
            IN [files |-> fs1, dirs |-> ds1,
                result |-> ToolResult(StatusOf(passed), "write", [path |-> p, items |-> <<>>],
                                      IF p \in fs THEN <<p>> ELSE <<>>, <<p>>, <<p>>,
                                      VerdictOf(passed))]

FileOperations_move_file(fs, ds, source, destination) ==
    LET src == Resolved(source)
        dst == Resolved(destination)
        same(r) == [files |-> fs, dirs |-> ds, result |-> r]
    IN IF ~_ensure_allowed(source) \/ ~_ensure_allowed(destination)
       THEN same(_verification_failure("move", <<source, destination>>))
       ELSE IF ~Exists(fs, ds, src) THEN same(_verification_failure("move", <<src, dst>>))
       ELSE IF ~ParentsCreatable(fs, dst)
            THEN same(_verification_failure("move", <<source, destination>>))
       ELSE LET ds0 == WithParents(ds, dst)
                m == shutil_move(fs, ds0, src, dst)
                passed == verify_move(m.files, m.dirs, src, dst)
            IN IF ~m.ok
               THEN [files |-> fs, dirs |-> ds0,
                     result |-> _verification_failure("move", <<source, destination>>)]
               ELSE [files |-> m.files, dirs |-> m.dirs,
                     result |-> ToolResult(StatusOf(passed), "move", [path |-> src, items |-> <<>>],
                                           <<src>>, <<dst>>, <<src, dst>>, VerdictOf(passed))]

FileOperations_copy_file(fs, ds, source, destination) ==
    LET src == Resolved(source)
        dst == Resolved(destination)
        same(r) == [files |-> fs, dirs |-> ds, result |-> r]
    IN IF ~_ensure_allowed(source) \/ ~_ensure_allowed(destination)
       THEN same(_verification_failure("copy", <<source, destination>>))
       ELSE IF ~Exists(fs, ds, src) THEN same(_verification_failure("copy", <<src, dst>>))
       ELSE IF ~ParentsCreatable(fs, dst)
            THEN same(_verification_failure("copy", <<source, destination>>))
       ELSE LET ds0 == WithParents(ds, dst)
                m == shutil_copy(fs, ds0, src, dst)
                passed == verify_copy(m.files, m.dirs, src, dst)
            IN IF ~m.ok
               THEN [files |-> fs, dirs |-> ds0,
                     result |-> _verification_failure("copy", <<source, destination>>)]
               ELSE [files |-> m.files, dirs |-> m.dirs,
                     result |-> ToolResult(StatusOf(passed), "copy", [path |-> src, items |-> <<>>],
                                           <<src>>, <<dst>>, <<src, dst>>, VerdictOf(passed))]

FileOperations_delete_file(fs, ds, path) ==
    LET p == Resolved(path)
        same(r) == [files |-> fs, dirs |-> ds, result |-> r]
    IN IF ~_ensure_allowed(path) THEN same(_verification_failure("delete", <<path>>))
       ELSE IF ~Exists(fs, ds, p) THEN same(_verification_failure("delete", <<p>>))
       ELSE IF p \in PROTECTED_PATHS THEN same(_verification_failure("delete", <<p>>))
       ELSE LET r == Removed(fs, ds, p)
                passed == verify_delete(r.files, r.dirs, p)
            IN [files |-> r.files, dirs |-> r.dirs,
                result |-> ToolResult(StatusOf(passed), "delete", [path |-> p, items |-> <<>>],
                                      <<p>>, <<>>, <<p>>, VerdictOf(passed))]

\* pattern is the sequence of the comma-separated glob patterns
\* the loop of delete_by_pattern when unlink raises for the files in locked: the files
\* it tries to unlink, in order (a file that stays is met again by a later pattern)
RECURSIVE UnlinkAttempts(_, _, _, _, _, _)
UnlinkAttempts(fs, ds, d, patterns, locked, k) ==
    IF k > Len(patterns) THEN <<>>
    ELSE GlobFiles(fs, ds, d, patterns[k])
            \o UnlinkAttempts(fs \ (Range(GlobFiles(fs, ds, d, patterns[k])) \ locked),
                              ds, d, patterns, locked, k + 1)

FailedItems(attempts, locked) ==
    [k \in 1..Len(SelectSeq(attempts, LAMBDA q : q \in locked)) |->
        [name |-> Basename(SelectSeq(attempts, LAMBDA q : q \in locked)[k]), is_dir |-> FALSE]]

\* delete_by_pattern reporting success whatever could not be removed
delete_by_pattern_always_success(fs, ds, directory, pattern, locked) ==
    IF ~_ensure_allowed(directory)
    THEN [files |-> fs, dirs |-> ds, result |-> _verification_failure("delete", <<directory>>)]
    ELSE IF Resolved(directory) \notin ds
         THEN [files |-> fs, dirs |-> ds,
               result |-> _verification_failure("delete", <<Resolved(directory)>>)]
    ELSE Only({ [files |-> fs \ (Range(attempts) \ locked), dirs |-> ds,
                 result |-> ToolResult("success", "delete",
                                       [path |-> Resolved(directory),
                                        items |-> FailedItems(attempts, locked)],
                                       SelectSeq(attempts, LAMBDA q : q \notin locked), <<>>,
                                       SelectSeq(attempts, LAMBDA q : q \notin locked),
                                       "passed")] :
                attempts \in {UnlinkAttempts(fs, ds, Resolved(directory), pattern, locked, 1)} })

\* FileOperations.delete_by_pattern; pattern is the list of the comma-separated globs,
\* locked the files whose unlink raises; output.items carries output["failed"]
delete_by_pattern(fs, ds, directory, pattern, locked) ==
    IF ~_ensure_allowed(directory)
    THEN [files |-> fs, dirs |-> ds, result |-> _verification_failure("delete", <<directory>>)]
    ELSE IF Resolved(directory) \notin ds
         THEN [files |-> fs, dirs |-> ds,
               result |-> _verification_failure("delete", <<Resolved(directory)>>)]
    ELSE Only({ [files |-> fs \ (Range(attempts) \ locked), dirs |-> ds,
                 result |-> ToolResult(StatusOf(Range(attempts) \cap locked = {}), "delete",
                                       [path |-> Resolved(directory),
                                        items |-> FailedItems(attempts, locked)],
                                       SelectSeq(attempts, LAMBDA q : q \notin locked), <<>>,
                                       SelectSeq(attempts, LAMBDA q : q \notin locked),
                                       VerdictOf(Range(attempts) \cap locked = {}))] :
                attempts \in {UnlinkAttempts(fs, ds, Resolved(directory), pattern, locked, 1)} })

\* delete_by_pattern when every unlink succeeds
FileOperations_delete_by_pattern(fs, ds, directory, pattern) ==
    delete_by_pattern(fs, ds, directory, pattern, {})

FileOperations_create_directory(fs, ds, path) ==
    LET p == Resolved(path)
        same(r) == [files |-> fs, dirs |-> ds, result |-> r]
    IN IF ~_ensure_allowed(path) THEN same(_verification_failure("create", <<path>>))
       ELSE IF Exists(fs, ds, p) THEN same(_verification_failure("create_directory", <<p>>))
       ELSE IF ~ParentsCreatable(fs, p) THEN same(_verification_failure("create", <<path>>))
       ELSE LET ds1 == WithParents(ds, p) \cup {p}
                passed == verify_create_dir(fs, ds1, p)
            IN [files |-> fs, dirs |-> ds1,
                result |-> ToolResult(StatusOf(passed), "create", [path |-> p, items |-> <<>>],
                                      <<>>, <<p>>, <<p>>, VerdictOf(passed))]

FileOperations_search_files(fs, ds, directory, pattern) ==
    [files |-> fs, dirs |-> ds,
     result |-> IF ~_ensure_allowed(directory) THEN _verification_failure("search", <<directory>>)
                ELSE IF ~Exists(fs, ds, Resolved(directory))
                     THEN _verification_failure("search", <<Resolved(directory)>>)
                ELSE ToolResult("success", "search",
                                [path |-> Resolved(directory),
                                 items |-> [k \in 1..Len(Glob(fs, ds, Resolved(directory), pattern)) |->
                                              [name |-> Basename(Glob(fs, ds, Resolved(directory), pattern)[k]),
                                               is_dir |-> Glob(fs, ds, Resolved(directory), pattern)[k] \in ds]]],
                                <<>>, <<>>, <<>>, "passed")]

----------------------------------------------------------------------------
(* Registered tools (tools/filesystem.py) behind ToolExecutor.execute      *)

dangerous_paths == {Home, Root, <<"Users">>, <<"System">>, <<"Library">>, <<"Applications">>}

DeleteFileTool_execute_keeps(fs, ds, path) ==
    [files |-> fs, dirs |-> ds, success |-> TRUE]

\* what the tool did to the disk and the value it passes as success=
DeleteFileTool_execute(fs, ds, path) ==
    LET target == Resolved(path)
    IN IF ~Exists(fs, ds, target) THEN [files |-> fs, dirs |-> ds, success |-> FALSE]
       ELSE IF target \in dangerous_paths THEN [files |-> fs, dirs |-> ds, success |-> FALSE]
       ELSE [files |-> Removed(fs, ds, target).files, dirs |-> Removed(fs, ds, target).dirs,
             success |-> TRUE]

MoveFileTool_execute(fs, ds, source, destination) ==
    LET src == Resolved(source)
        dst == Resolved(destination)
    IN IF ~Exists(fs, ds, src) THEN [files |-> fs, dirs |-> ds, success |-> FALSE]
       ELSE IF ~ParentsCreatable(fs, dst) THEN [files |-> fs, dirs |-> ds, success |-> FALSE]
       ELSE LET m == shutil_move(fs, WithParents(ds, dst), src, dst)
            IN [files |-> m.files, dirs |-> m.dirs, success |-> m.ok]

ListDirectoryTool_execute(fs, ds, path) ==
    [files |-> fs, dirs |-> ds, success |-> Resolved(path) \in ds]

\* the fields of the ToolResult dataclass and the ones without a default
ToolResultFields ==
    {"status", "action", "output", "error", "before_paths", "after_paths", "changed",
     "verification", "verification_passed", "verification_details",
     "display_summary_user", "message_internal", "message_user"}

ToolResultRequired == {"status", "action", "output"}

\* ToolResult(**kwargs) raises TypeError on an unknown or a missing field
ToolResult_init_raises(kwargs) ==
    ~(kwargs \subseteq ToolResultFields) \/ ~(ToolResultRequired \subseteq kwargs)

\* the keywords every registered tool and the executor pass to ToolResult
RegisteredToolKwargs == {"success", "output", "error"}

FILESYSTEM_TOOLS == {"read_file", "list_directory", "write_file", "move_file", "copy_file",
                     "delete_file", "create_directory", "search_files"}

\* tools whose execute body is modelled
ModelledTools == {"list_directory", "move_file", "delete_file"}

\* ToolExecutor.execute: [files, dirs, success, raised, verification]
ToolExecutor_execute(fs, ds, tool_name, params) ==
    LET r == CASE tool_name = "delete_file" -> DeleteFileTool_execute(fs, ds, params.path)
               [] tool_name = "move_file" ->
                      MoveFileTool_execute(fs, ds, params.source, params.destination)
               [] tool_name = "list_directory" -> ListDirectoryTool_execute(fs, ds, params.path)
               [] OTHER -> [files |-> fs, dirs |-> ds, success |-> FALSE]
    IN [files |-> r.files, dirs |-> r.dirs, success |-> r.success,
        raised |-> ToolResult_init_raises(RegisteredToolKwargs),
        verification |-> "absent"]

----------------------------------------------------------------------------
(* ReferenceResolver (context/resolver.py)                                 *)

Resolution(entity, confidence, alternatives, via) ==
    [entity |-> entity, confidence |-> confidence, alternatives |-> alternatives, via |-> via]

_extract_explicit_path(u) ==
    IF ContainsAny(u, PathTokens) THEN u[FirstIndex(u, PathTokens)] ELSE None

\* ORDINALS in insertion order: index of the first pattern found in the message
ResolverOrdinals ==
    << [words |-> {"first", "1st", "primo"}, i |-> 0],
       [words |-> {"second", "2nd", "secondo"}, i |-> 1],
       [words |-> {"third", "3rd", "terzo"}, i |-> 2],
       [words |-> {"fourth", "4th", "quarto"}, i |-> 3],
       [words |-> {"fifth", "5th", "quinto"}, i |-> 4],
       [words |-> {"last", "ultimo"}, i |-> 0 - 1] >>

\* an ordinal past the end of the selection taken as its last item
_resolve_ordinal_clamped(S, c, u) ==
    LET hits == {k \in 1..Len(ResolverOrdinals) : ContainsAny(u, ResolverOrdinals[k].words)}
    IN IF hits = {} THEN {}
       ELSE LET index == ResolverOrdinals[CHOOSE k \in hits : \A j \in hits : k <= j].i
                selection == get_current_selection(S, c)
                items == get_selection_items(S, selection)
                idx == IF index < 0 \/ index >= Len(items) THEN Len(items) - 1 ELSE index
            IN IF selection.id = 0 THEN {Resolution(NoEntity, "low", <<>>, "ordinal")}
               ELSE IF Len(items) = 0 THEN {Resolution(NoEntity, "low", <<>>, "ordinal")}
               ELSE {Resolution(items[idx + 1], "high", items, "ordinal")}

_resolve_ordinal(S, c, u) ==
    LET hits == {k \in 1..Len(ResolverOrdinals) : ContainsAny(u, ResolverOrdinals[k].words)}
    IN IF hits = {} THEN {}
       ELSE LET index == ResolverOrdinals[CHOOSE k \in hits : \A j \in hits : k <= j].i
                selection == get_current_selection(S, c)
                items == get_selection_items(S, selection)
                idx == IF index < 0 THEN Len(items) + index ELSE index
            IN IF selection.id = 0 THEN {Resolution(NoEntity, "low", <<>>, "ordinal")}
               ELSE IF Len(items) = 0 THEN {Resolution(NoEntity, "low", <<>>, "ordinal")}
               ELSE IF 0 <= idx /\ idx < Len(items)
                    THEN {Resolution(items[idx + 1], "high", items, "ordinal")}
               ELSE {Resolution(NoEntity, "low", items, "ordinal")}

IsFileRef(u) ==
    \/ ContainsAny(u, {"it", "that", "this", "questo", "quello"})
    \/ Bigram(u, {"the", "quel"}, {"file"})

IsFolderRef(u) ==
    \/ Bigram(u, {"the", "that"}, {"folder"})
    \/ Bigram(u, {"the", "la"}, {"directory"})
    \/ Bigram(u, {"la"}, {"cartella"})

_resolve_pronoun(S, c, u, preferred_kind) ==
    LET target_kind == IF IsFileRef(u) /\ ~IsFolderRef(u) THEN "file"
                       ELSE IF IsFolderRef(u) /\ ~IsFileRef(u) THEN "folder"
                       ELSE preferred_kind
        laf == get_last_active_file(S, c)
        lafo == get_last_active_folder(S, c)
        items == ConversationContext_get_selection_items(S, c)
    IN IF target_kind = "folder" /\ lafo.id # 0 THEN Resolution(lafo, "high", <<>>, "pronoun")
       ELSE IF target_kind = "file" /\ laf.id # 0 THEN Resolution(laf, "high", <<>>, "pronoun")
       ELSE IF laf.id # 0 THEN Resolution(laf, "medium", <<>>, "pronoun")
       ELSE IF lafo.id # 0 THEN Resolution(lafo, "medium", <<>>, "pronoun")
       ELSE IF get_current_selection(S, c).id # 0 /\ Len(items) = 1
            THEN Resolution(items[1], "medium", items, "pronoun")
       ELSE IF get_current_selection(S, c).id # 0 /\ Len(items) > 1
            THEN Resolution(NoEntity, "ambiguous", items, "pronoun")
       ELSE Resolution(NoEntity, "none", <<>>, "pronoun")

MatchesRecent(u) ==
    \/ Bigram(u, {"just", "recently"}, {"created", "made", "opened", "read", "viewed"})
    \/ Bigram(u, {"new", "nuovo"}, {"file", "folder", "cartella"})

\* get_recent(kind, limit=1): the newest row, any row on a created_at tie
_resolve_recent(S, c, u, preferred_kind) ==
    LET recent == {e \in get_all(S, c) : preferred_kind = None \/ e.kind = preferred_kind}
    IN IF MatchesRecent(u) /\ recent # {}
       THEN {Resolution(e, "high", <<e>>, "recent") : e \in recent}
       ELSE {}

NameStopwords == {"it", "that", "this", "one", "first", "second", "third", "last",
                  "file", "folder", "directory", "new", "old", "just", "created"}

_extract_names(u) ==
    {FileNameInToken(u[i]) : i \in {j \in 1..Len(u) : FileNameInToken(u[j]) # None}}
    \cup {u[i + 1] : i \in {j \in 1..(Len(u) - 1) :
                              /\ u[j] \in {"the", "file", "folder", "il", "la"}
                              /\ u[j + 1] \notin NameStopwords
                              /\ u[j + 1] \notin PathTokens}}

Stem(n) == CASE n = "a.txt" -> "a" [] n = "b.txt" -> "b" [] n = "a+.txt" -> "a+" [] OTHER -> n

\* score * 100; the names of the model are never proper substrings of one another
_name_match_score(query, e) ==
    IF query = Lower(e.name) THEN 100
    ELSE IF query = Stem(Lower(e.name)) THEN 95
    ELSE 0

_score_to_confidence(score) ==
    IF score >= 90 THEN "high" ELSE IF score >= 60 THEN "medium"
    ELSE IF score >= 30 THEN "low" ELSE "none"

\* a set of entities as a sequence, best score first
RECURSIVE RankedSeq(_, _)
RankedSeq(E, score) ==
    IF E = {} THEN <<>>
    ELSE LET best == CHOOSE e \in E : \A f \in E :
                         score[e] > score[f] \/ (score[e] = score[f] /\ e.id <= f.id)
         IN <<best>> \o RankedSeq(E \ {best}, score)

_resolve_by_name(S, c, u, preferred_kind) ==
    LET names == _extract_names(u)
        all == {e \in get_all(S, c) : preferred_kind = None \/ e.kind = preferred_kind}
        best(e) == CHOOSE v \in {_name_match_score(n, e) : n \in names} :
                        \A w \in {_name_match_score(n, e) : n \in names} : v >= w
        matched == {e \in all : \E n \in names : _name_match_score(n, e) > 0}
        ranked == RankedSeq(matched, [e \in matched |-> best(e)])
    IN IF names = {} \/ matched = {} THEN Resolution(NoEntity, "none", <<>>, "name")
       ELSE IF Len(ranked) > 1 /\ best(ranked[2]) > 70 /\ best(ranked[1]) - best(ranked[2]) < 10
            THEN Resolution(NoEntity, "ambiguous", ranked, "name")
       ELSE Resolution(ranked[1], _score_to_confidence(best(ranked[1])), Tail(ranked), "name")

\* the possible outcomes of ReferenceResolver.resolve
resolve(S, c, u, preferred_kind, is_destructive) ==
    LET pronoun == _resolve_pronoun(S, c, u, preferred_kind)
        byname == _resolve_by_name(S, c, u, preferred_kind)
    IN IF _extract_explicit_path(u) # None
       THEN LET found == get_by_path(S, c, PathOfToken(_extract_explicit_path(u)))
            IN IF found # {} THEN {Resolution(e, "high", <<>>, "explicit") : e \in found}
               ELSE {Resolution(NoEntity, "high", <<>>, "explicit")}
       ELSE IF _resolve_ordinal(S, c, u) # {} THEN _resolve_ordinal(S, c, u)
       ELSE IF pronoun.entity.id # 0
            THEN {IF is_destructive /\ pronoun.confidence = "high"
                  THEN [pronoun EXCEPT !.confidence = "medium"] ELSE pronoun}
       ELSE IF _resolve_recent(S, c, u, preferred_kind) # {}
            THEN _resolve_recent(S, c, u, preferred_kind)
       ELSE IF byname.entity.id # 0 \/ Len(byname.alternatives) > 0 THEN {byname}
       ELSE {Resolution(NoEntity, "none", <<>>, "none")}

resolve_for_action(S, c, u, action) ==
    resolve(S, c, u,
            IF action \in {"delete_file", "read_file", "write_file", "move_file", "copy_file"}
            THEN "file"
            ELSE IF action \in {"list_directory", "create_directory"} THEN "folder" ELSE None,
            action \in {"delete", "move", "overwrite", "write"})

----------------------------------------------------------------------------
(* The planner (engine/orchestrator.py).  _last_directory_context is only   *)
(* assigned by _update_context_from_result, which runs after                *)
(* ToolExecutor.execute has returned; every registered tool raises before   *)
(* that (ToolResult_init_raises), so the directory context is None          *)
(* wherever the planner reads it and the branches guarded by it are absent. *)

USER_HOME == Home

NoParams == [path |-> NoPath, source |-> NoPath, destination |-> NoPath]

PathParams(p) == [NoParams EXCEPT !.path = p]

MoveParams(src, dst) == [NoParams EXCEPT !.source = src, !.destination = dst]

NoLegacy == [tool |-> None, params |-> NoParams, explicit |-> FALSE]

PlannedAction(status, tool_name, params, resolved_entity, explicit_path, selection_resolved, destination_path, alternatives) ==
    [status |-> status, tool_name |-> tool_name, params |-> params,
     resolved_entity |-> resolved_entity, explicit_path |-> explicit_path,
     selection_resolved |-> selection_resolved, destination_path |-> destination_path,
     alternatives |-> alternatives]

NoPlan == PlannedAction("none", None, NoParams, NoEntity, FALSE, FALSE, NoPath, <<>>)

\* no message and no reply names a FOLDER_MAP folder other than the Desktop
_get_context_folder == Desktop

\* _resolve_folder_alias: FOLDER_MAP keys that can stand as a destination token
FolderAlias(t) ==
    CASE t = "desktop" -> Desktop
      [] t = "home" -> Home
      [] OTHER -> NoPath

\* "." in os.path.basename(token)
HasExtension(t) == t \in {"a.txt", "b.txt", "a+.txt"}

\* token + os.path.splitext(name)[1]; every file name of the model ends in .txt
WithExtensionOf(t, name) == CASE t = "a" -> "a.txt" [] t = "b" -> "b.txt" [] OTHER -> t

\* the first absolute path of the message, else None (no message names a FOLDER_MAP keyword)
_extract_folder(u) ==
    IF ContainsAny(u, PathTokens) THEN PathOfToken(u[FirstIndex(u, PathTokens)]) ELSE NoPath

_extract_filename(u) ==
    LET hits == {i \in 1..Len(u) : FileNameInToken(u[i]) # None}
    IN IF hits = {} THEN None
       ELSE FileNameInToken(u[CHOOSE i \in hits : \A j \in hits : i <= j])

\* without a directory context the bare name is returned: a relative path
_extract_filename_from_context(u) ==
    LET name == _extract_filename(u)
        simple == {i \in 1..(Len(u) - 1) : u[i] = "file" /\ u[i + 1] \notin PathTokens}
    IN IF name # None THEN <<".", name>>
       ELSE IF simple # {} THEN <<".", u[(CHOOSE i \in simple : \A j \in simple : i <= j) + 1]>>
       ELSE NoPath

_extract_path(u) ==
    LET hits == {i \in 1..Len(u) : AbsPathWithExtension(u[i])}
    IN IF hits = {} THEN NoPath ELSE PathOfToken(u[CHOOSE i \in hits : \A j \in hits : i <= j])

\* "delete [the] folder X" and "delete [the] X folder"; X is a \w+ word
_extract_folder_to_delete(u) ==
    LET verbs == {"delete", "elimina", "rimuovi"}
        word(t) == t \notin PathTokens /\ ~HasExtension(t)
        after(i) == IF u[i + 1] = "the" THEN i + 2 ELSE i + 1
        p1 == {i \in 1..(Len(u) - 2) :
                  /\ u[i] \in verbs /\ after(i) + 1 <= Len(u)
                  /\ u[after(i)] \in {"folder", "cartella"} /\ word(u[after(i) + 1])}
        p2 == {i \in 1..(Len(u) - 2) :
                  /\ u[i] \in verbs /\ after(i) + 1 <= Len(u)
                  /\ word(u[after(i)]) /\ u[after(i) + 1] \in {"folder", "cartella"}}
        first(H) == CHOOSE i \in H : \A j \in H : i <= j
    IN IF p1 # {}
       THEN LET folder_name == u[after(first(p1)) + 1]
            IN IF FolderAlias(folder_name) # NoPath THEN FolderAlias(folder_name)
               ELSE Join(_get_context_folder, Capitalize(folder_name))
       ELSE IF p2 # {} THEN Join(_get_context_folder, Capitalize(u[after(first(p2))]))
       ELSE NoPath

\* the destination named after to/into/in/as; NoPath when there is none
_extract_destination_from_message(u, base_dir, source_name) ==
    IF \A i \in 1..(Len(u) - 1) : u[i] \notin {"to", "into", "in", "as"} THEN NoPath
    ELSE Only({
        IF dest_token \in PathTokens THEN PathOfToken(dest_token)
        ELSE IF FolderAlias(dest_token) # NoPath
             THEN IF source_name # None THEN Join(FolderAlias(dest_token), source_name)
                  ELSE FolderAlias(dest_token)
        ELSE IF HasExtension(dest_token) THEN Join(base_dir, dest_token)
        ELSE IF ContainsAny(u, {"rename", "rinomina"}) /\ source_name # None /\ HasExtension(source_name)
             THEN Join(base_dir, WithExtensionOf(dest_token, source_name))
        ELSE IF source_name # None THEN Join(Join(base_dir, dest_token), source_name)
        ELSE Join(base_dir, dest_token)
        : dest_token \in {Only({IF u[i + 1] \in {"just", "solo"} /\ i + 1 < Len(u)
                                THEN u[i + 2] ELSE u[i + 1]
                                : i \in {FirstIndex(u, {"to", "into", "in", "as"})}})}})

\* only the patterns with an absolute source apply without a directory context
_extract_move_paths(u) ==
    Only({
        IF direct # {}
        THEN MoveParams(PathOfToken(u[MinOf(direct) + 1]), PathOfToken(u[MinOf(direct) + 3]))
        ELSE IF abs_src # {}
             THEN Only({IF dest # NoPath THEN MoveParams(src, dest) ELSE NoParams
                        : dest \in {_extract_destination_from_message(u, Dirname(src), Basename(src))}})
        ELSE NoParams
        : direct \in {{i \in 1..(Len(u) - 3) :
                          /\ u[i] \in {"move", "rename", "sposta", "rinomina"} /\ u[i + 1] \in PathTokens
                          /\ u[i + 2] \in {"to", "into", "in"} /\ u[i + 3] \in PathTokens}},
          abs_src \in {{i \in 1..(Len(u) - 3) :
                          /\ u[i] \in {"move", "rename", "sposta", "rinomina"} /\ u[i + 1] \in PathTokens
                          /\ u[i + 2] \in {"to", "into", "in", "as"}}},
          src \in {Only({IF H = {} THEN NoPath ELSE PathOfToken(u[MinOf(H) + 1])
                         : H \in {{i \in 1..(Len(u) - 3) :
                                      /\ u[i] \in {"move", "rename", "sposta", "rinomina"}
                                      /\ u[i + 1] \in PathTokens
                                      /\ u[i + 2] \in {"to", "into", "in", "as"}}}})}})

\* [tool, params, explicit]; NoLegacy when the message plans nothing
_detect_tool_action(S, c, u) ==
    IF u \in {<<"yes">>, <<"si">>, <<"ok">>, <<"sure">>, <<"do", "it">>, <<"proceed">>,
              <<"vai">>, <<"fallo">>}
    THEN NoLegacy
    ELSE Only({
        IF _matches_delete(u) /\ in_context # NoPath
        THEN [tool |-> "delete_file", params |-> PathParams(in_context), explicit |-> explicit_path]
        ELSE IF _matches_delete(u) /\ path # NoPath
        THEN [tool |-> "delete_file", params |-> PathParams(path), explicit |-> TRUE]
        ELSE IF _matches_delete(u) /\ folder_to_delete # NoPath
        THEN [tool |-> "delete_file", params |-> PathParams(folder_to_delete), explicit |-> explicit_path]
        ELSE IF _matches_delete(u) /\ folder_path # NoPath
        THEN [tool |-> "list_directory", params |-> PathParams(folder_path), explicit |-> explicit_path]
        ELSE IF _matches_list(u)
        THEN [tool |-> "list_directory",
              params |-> PathParams(IF folder_path # NoPath THEN folder_path
                                    ELSE IF last_folder.id # 0 THEN last_folder.path
                                    ELSE Desktop),
              explicit |-> explicit_path]
        ELSE IF _matches_move(u) /\ move_paths # NoParams
        THEN [tool |-> "move_file", params |-> move_paths,
              explicit |-> (explicit_path \/ move_paths.source # NoPath)]
        ELSE IF _matches_read(u) /\ in_context # NoPath
        THEN [tool |-> "read_file", params |-> PathParams(in_context), explicit |-> explicit_path]
        ELSE IF _matches_read(u) /\ path # NoPath
        THEN [tool |-> "read_file", params |-> PathParams(path), explicit |-> TRUE]
        ELSE NoLegacy
        : explicit_path \in {_message_has_explicit_path(u)},
          folder_path \in {_extract_folder(u)},
          last_folder \in {get_last_active_folder(S, c)},
          in_context \in {_extract_filename_from_context(u)},
          path \in {_extract_path(u)},
          folder_to_delete \in {_extract_folder_to_delete(u)},
          move_paths \in {_extract_move_paths(u)}})

\* the ordinal_patterns loop and the legacy fallback of _detect_tool_action_with_context
OrdinalOrLegacy(S, c, u) ==
    Only({
        IF word # None /\ Len(selection_items) > 0 /\ parsed # NoOrdinal
           /\ 0 <= ordinal_idx /\ ordinal_idx < Len(selection_items)
           /\ (_matches_delete(u) \/ _matches_read(u) \/ _matches_move(u))
        THEN Only({
                IF _matches_delete(u)
                THEN PlannedAction("ready", "delete_file", PathParams(entity.path), entity,
                                   FALSE, TRUE, NoPath, <<>>)
                ELSE IF _matches_read(u)
                THEN PlannedAction("ready", "read_file", PathParams(entity.path), entity,
                                   FALSE, TRUE, NoPath, <<>>)
                ELSE Only({
                        IF dest # NoPath
                        THEN PlannedAction("ready", "move_file", MoveParams(entity.path, dest), entity,
                                           FALSE, TRUE, dest, <<>>)
                        ELSE PlannedAction("needs_clarification", "move_file",
                                           MoveParams(entity.path, NoPath), entity,
                                           FALSE, TRUE, NoPath, <<>>)
                        : dest \in {_extract_destination_from_message(u, Dirname(entity.path),
                                                                      entity.name)}})
                : entity \in {selection_items[ordinal_idx + 1]}})
        ELSE IF legacy_action # NoLegacy
        THEN PlannedAction("ready", legacy_action.tool, legacy_action.params, NoEntity,
                           legacy_action.explicit, FALSE, NoPath, <<>>)
        ELSE NoPlan
        : word \in {OrdinalPatternWord(u)},
          selection_items \in {ConversationContext_get_selection_items(S, c)},
          parsed \in {_parse_ordinal_selection(<<OrdinalPatternWord(u)>>)},
          ordinal_idx \in {IF _parse_ordinal_selection(<<OrdinalPatternWord(u)>>) = 0 - 1
                           THEN Len(ConversationContext_get_selection_items(S, c)) - 1
                           ELSE _parse_ordinal_selection(<<OrdinalPatternWord(u)>>)},
          legacy_action \in {_detect_tool_action(S, c, u)}})

\* the possible plans for a message
_detect_tool_action_with_context(S, c, u) ==
    UNION {
        IF NeedsResolution(u) /\ tool # None
        THEN {IF r.entity.id # 0
              THEN IF tool = "move_file"
                   THEN Only({
                           IF dest # NoPath
                           THEN PlannedAction("ready", "move_file", MoveParams(r.entity.path, dest),
                                              r.entity, FALSE, FALSE, dest, <<>>)
                           ELSE PlannedAction("needs_clarification", "move_file",
                                              MoveParams(r.entity.path, NoPath), r.entity,
                                              FALSE, FALSE, NoPath, <<>>)
                           : dest \in {_extract_destination_from_message(u, Dirname(r.entity.path),
                                                                         r.entity.name)}})
                   ELSE PlannedAction("ready", tool, PathParams(r.entity.path), r.entity,
                                      FALSE, FALSE, NoPath, r.alternatives)
              ELSE IF r.confidence = "ambiguous"
              THEN IF tool = "move_file"
                   THEN Only({
                           PlannedAction("needs_disambiguation", "move_file",
                                         MoveParams(EmptyPath, IF dest # NoPath THEN dest ELSE EmptyPath),
                                         NoEntity, FALSE, FALSE, NoPath, r.alternatives)
                           : dest \in {_extract_destination_from_message(u, _get_context_folder, None)}})
                   ELSE PlannedAction("needs_disambiguation", tool, PathParams(EmptyPath), NoEntity,
                                      FALSE, FALSE, NoPath, r.alternatives)
              ELSE fallback
              : r \in resolve_for_action(S, c, u, tool)}
        ELSE {fallback}
        : tool \in {IF _matches_delete(u) THEN "delete_file"
                    ELSE IF _matches_read(u) THEN "read_file"
                    ELSE IF _matches_move(u) THEN "move_file" ELSE None},
          fallback \in {OrdinalOrLegacy(S, c, u)}}

_needs_confirmation_only_for_patterns(planned) ==
    planned.tool_name = "delete_by_pattern"

_needs_confirmation_for_action(planned) ==
    /\ planned.tool_name \in {"delete_file", "delete_by_pattern", "move_file"}
    /\ \/ planned.tool_name = "delete_by_pattern"
       \/ ~(planned.explicit_path \/ planned.selection_resolved)

_tool_available_ignoring_registry(tool_name, enabled, disabled) ==
    /\ tool_name # None
    /\ enabled
    /\ tool_name \in FILESYSTEM_TOOLS

_tool_available(tool_name, enabled, disabled) ==
    /\ tool_name # None
    /\ enabled
    /\ tool_name \in FILESYSTEM_TOOLS
    /\ tool_name \notin disabled

----------------------------------------------------------------------------
(* Replies.  A reply is the sequence of the lowercase words and sentence    *)
(* marks of its text (ActionGuard lowercases before matching); <<>> stands  *)
(* for no reply.                                                            *)

\* _short_path, word by word: the home prefix becomes "~"
PathWords(p) ==
    IF p = NoPath \/ p = EmptyPath THEN <<>>
    ELSE IF IsPrefix(Home, p)
    THEN <<"~">> \o [k \in 1..(Len(p) - Len(Home)) |-> Lower(p[Len(Home) + k])]
    ELSE [k \in 1..Len(p) |-> Lower(p[k])]

ActionVerb(action) ==
    CASE action \in {"delete", "delete_file", "delete_by_pattern"} -> "delete"
      [] action \in {"move", "move_file"} -> "move"
      [] action \in {"overwrite", "write_file"} -> "overwrite"
      [] OTHER -> action

\* "{verb} {path}? (yes/no)" or "{verb} {path} -> {destination}? (yes/no)"
format_confirmation_request_for_path(path, action, destination_path) ==
    <<ActionVerb(action)>> \o PathWords(path)
    \o (IF destination_path \notin {NoPath, EmptyPath}
        THEN <<"->">> \o PathWords(destination_path) ELSE <<>>)
    \o <<"?", "(yes/no)">>

format_confirmation_request(entity, action, destination_path) ==
    format_confirmation_request_for_path(entity.path, action, destination_path)

format_disambiguation(alternatives, action) ==
    IF Len(alternatives) = 0
    THEN <<"i", "couldn't", "find", "a", "matching", "file", ".", "can", "you", "specify",
           "the", "path", "?">>
    ELSE IF Len(alternatives) = 1
    THEN <<"did", "you", "mean", Lower(alternatives[1].name)>> \o PathWords(alternatives[1].path)
         \o <<"?", "reply", "yes", "or", "specify", "another", "file", ".">>
    ELSE <<"i", "found", "files", ".", "which", "one", "do", "you", "want", "to", action, "?",
           "reply", "with", "the", "number", ",", "or", "specify", "a", "path", ".">>

format_tool_unavailable(tool_name) ==
    <<"that", "action", "isn't", "available", "right", "now", ".">>
    \o (IF tool_name # None THEN <<tool_name>> ELSE <<>>)

ActionCancelled == <<"action", "cancelled", ".">>

\* "I need the exact source and destination (or new name) to rename/move files, ..."
ClarifyPaths ==
    <<"i", "need", "the", "exact", "source", "and", "destination", "or", "new", "name", "to",
      "rename/move", "files", ",", "or", "a", "concrete", "path", "to", "run", "the", "action",
      ".", "please", "provide", "the", "full", "paths", ".">>

\* "I need the destination path or new name to move/rename it. Please provide the destination."
ClarifyDestination ==
    <<"i", "need", "the", "destination", "path", "or", "new", "name", "to", "move/", "rename",
      "it", ".", "please", "provide", "the", "destination", ".">>

\* the honest_response of validate_model_response
HonestResponse ==
    <<"i", "need", "more", "information", "to", "complete", "that", "action", ".", "could",
      "you", "specify", "the", "exact", "file", "path", "or", "which", "file", "you", "mean", "?">>

\* texts the language model can produce
ModelTexts ==
    { <<"hello", "!", "how", "can", "i", "help", "you", "today", "?">>,
      <<"i", "deleted", "the", "file", ".">>,
      <<"done", "!">>,
      <<"i", "can't", "confirm", "it", "is", "done", ".">>,
      <<"i", "can't", "find", "it", ".", "but", "i've", "deleted", "the", "old", "one", ".">> }

----------------------------------------------------------------------------
(* ActionGuard (utils/action_guard.py).  The English patterns, on words.    *)

At(t, i) == IF i >= 1 /\ i <= Len(t) THEN t[i] ELSE ""

PastClaim == {"deleted", "removed", "renamed", "moved", "created", "copied"}

\* for each HALLUCINATION_PATTERN, in list order, the positions where it matches
HallucinationHits(t) ==
    << {i \in 1..Len(t) :
           \/ t[i] \in {"i", "i've"} /\ At(t, i + 1) \in PastClaim \cup {"written", "made"}
           \/ t[i] = "i" /\ At(t, i + 1) = "have" /\ At(t, i + 2) \in PastClaim \cup {"written", "made"}},
       {i \in 1..Len(t) :
           /\ t[i] \in {"file", "folder", "directory", "document"}
           /\ \/ At(t, i + 1) \in {"was", "is"} /\ At(t, i + 2) \in PastClaim
              \/ At(t, i + 1) = "has" /\ At(t, i + 2) = "been" /\ At(t, i + 3) \in PastClaim},
       {i \in 1..Len(t) : t[i] \in {"successfully", "done", "completed", "finished"}},
       {i \in 1..Len(t) :
           /\ t[i] \in {"rename", "renamed"}
           /\ \E j \in (i + 1)..(Len(t) - 1) : t[j] \in {"to", "into", "->"}} >>

\* position of the match of the first pattern that matches; 0 when none does
HallucinationPos(t) ==
    LET hits == HallucinationHits(t)
        matching == {k \in 1..Len(hits) : hits[k] # {}}
    IN IF matching = {} THEN 0 ELSE MinOf(hits[MinOf(matching)])

has_contrasting_claim(t) ==
    \E i \in 1..Len(t) : \E j \in (i + 1)..Len(t) :
        /\ t[i] \in {"but", "however", "though", "although"}
        /\ \/ t[j] \in {"i", "i've"} /\ At(t, j + 1) \in PastClaim
           \/ t[j] = "i" /\ At(t, j + 1) = "have" /\ At(t, j + 2) \in PastClaim

\* for each SAFE_PATTERN, in list order, the position of its first match (0: none)
SafePositions(t) ==
    << MinOf({i \in 1..Len(t) : t[i] \in {"can't", "cant", "cannot", "unable", "won't", "wont",
                                          "couldn't", "couldnt"}}),
       MinOf({i \in 1..Len(t) :
                 /\ t[i] \in {"need", "require", "provide", "specify"}
                    \/ (t[i] = "tell" /\ At(t, i + 1) = "me")
                 /\ \E j \in (i + 1)..Len(t) : t[j] \in {"path", "file", "name"}}),
       MinOf({i \in 1..Len(t) : t[i] \in {"which", "what"} /\ At(t, i + 1) \in {"file", "folder", "one"}}),
       MinOf({i \in 1..Len(t) :
                 \/ t[i] = "i'd" /\ At(t, i + 1) = "need"
                 \/ t[i] = "i" /\ At(t, i + 1) = "would" /\ At(t, i + 2) = "need"}),
       MinOf({i \in 1..Len(t) : t[i] = "please" /\ At(t, i + 1) \in {"provide", "specify", "confirm"}}) >>

contains_hallucination(t) ==
    LET hall_pos == HallucinationPos(t)
        safe == SafePositions(t)
        is_purely_limitation ==
            \E k \in 1..Len(safe) :
                /\ safe[k] # 0
                /\ safe[k] <= hall_pos
                /\ \A j \in safe[k]..(hall_pos - 1) : t[j] \notin {".", "!"}
    IN IF hall_pos = 0 THEN FALSE
       ELSE IF has_contrasting_claim(t) THEN TRUE
       ELSE ~is_purely_limitation

validate_model_response_unguarded(response, tool_was_executed) ==
    [response |-> response, was_blocked |-> FALSE]

\* [response, was_blocked]
validate_model_response(response, tool_was_executed) ==
    IF tool_was_executed THEN [response |-> response, was_blocked |-> FALSE]
    ELSE IF contains_hallucination(response)
    THEN [response |-> HonestResponse, was_blocked |-> TRUE]
    ELSE [response |-> response, was_blocked |-> FALSE]

----------------------------------------------------------------------------
(* One turn: LeonardOrchestrator.chat / chat_stream.  The outcome of a turn *)
(* records the state it leaves and what it did.                             *)

NoPending == [tool_name |-> None, params |-> NoParams, entity |-> NoEntity]

PendingAction(tool_name, params, entity) ==
    [tool_name |-> tool_name, params |-> params, entity |-> entity]

NoExec == [tool |-> None, params |-> NoParams, success |-> FALSE, raised |-> FALSE,
           verification |-> "absent"]

Outcome(S, fs, ds, pend, kind, reply, exec, plan, setCalled, pendingAtSet, handled) ==
    [S |-> S, files |-> fs, dirs |-> ds, pending |-> pend, kind |-> kind, reply |-> reply,
     exec |-> exec, plan |-> plan, setCalled |-> setCalled, pendingAtSet |-> pendingAtSet,
     handled |-> handled]

Execute_and_delete_parent(S, fs, ds, pend, tool_name, params, plan, handled) ==
    Only({Outcome(S, y.files, y.dirs, pend, "raised", <<>>,
                  [tool |-> tool_name, params |-> params, success |-> x.success,
                   raised |-> x.raised, verification |-> x.verification],
                  plan, FALSE, NoPending, handled)
          : x \in {ToolExecutor_execute(fs, ds, tool_name, params)},
            y \in {ToolExecutor_execute(ToolExecutor_execute(fs, ds, tool_name, params).files,
                                        ToolExecutor_execute(fs, ds, tool_name, params).dirs,
                                        "delete_file", PathParams(Dirname(Resolved(params.path))))}})

\* await tool_executor.execute(...) and what follows it.  The registered tool acts on
\* the disk and then fails to build its ToolResult: the TypeError leaves chat, so
\* _update_context_from_result and track_from_tool_result are not reached.
Execute(S, fs, ds, pend, tool_name, params, plan, handled) ==
    Only({Outcome(S, x.files, x.dirs, pend, IF x.raised THEN "raised" ELSE "tool_result", <<>>,
                  [tool |-> tool_name, params |-> params, success |-> x.success,
                   raised |-> x.raised, verification |-> x.verification],
                  plan, FALSE, NoPending, handled)
          : x \in {ToolExecutor_execute(fs, ds, tool_name, params)}})

\* the availability check, the confirmation decision and the execution of a READY plan
RunPlan(S, fs, ds, pend, planned, enabled, disabled) ==
    IF ~_tool_available(planned.tool_name, enabled, disabled)
    THEN Outcome(S, fs, ds, pend, "unavailable", format_tool_unavailable(planned.tool_name),
                 NoExec, planned, FALSE, NoPending, "none")
    ELSE IF _needs_confirmation_for_action(planned)
    THEN \* _request_confirmation
         Outcome(S, fs, ds,
                 PendingAction(planned.tool_name, planned.params, planned.resolved_entity),
                 "confirm",
                 IF planned.resolved_entity.id # 0
                 THEN format_confirmation_request(planned.resolved_entity, planned.tool_name,
                                                  planned.destination_path)
                 ELSE format_confirmation_request_for_path(
                          IF planned.params.path \notin {NoPath, EmptyPath} THEN planned.params.path
                          ELSE planned.params.source,
                          planned.tool_name,
                          IF planned.destination_path # NoPath THEN planned.destination_path
                          ELSE planned.params.destination),
                 NoExec, planned, TRUE, pend, "none")
    ELSE Execute(S, fs, ds, pend, planned.tool_name, planned.params, planned, "none")

\* the outcomes of _handle_pending_action; none when it returns None
_handle_pending_action(S, fs, ds, c, pend, u, enabled, disabled) ==
    IF pend = NoPending THEN {}
    ELSE IF is_confirmation(u)
    THEN IF ~_tool_available(pend.tool_name, enabled, disabled)
         THEN {Outcome(S, fs, ds, NoPending, "unavailable", format_tool_unavailable(pend.tool_name),
                       NoExec, NoPlan, FALSE, NoPending, "confirm")}
         ELSE {Execute(S, fs, ds, NoPending, pend.tool_name, pend.params, NoPlan, "confirm")}
    ELSE IF is_cancellation(u)
    THEN {Outcome(S, fs, ds, NoPending, "cancelled", ActionCancelled, NoExec, NoPlan,
                  FALSE, NoPending, "cancel")}
    ELSE UNION {
        IF ordinal_match # NoOrdinal /\ 0 <= ordinal_match /\ ordinal_match < Len(selection_items)
        THEN {IF pend.tool_name = "move_file" /\ params.destination \in {NoPath, EmptyPath}
              THEN Outcome(S, fs, ds, pend, "clarification", ClarifyDestination, NoExec, NoPlan,
                           FALSE, NoPending, "ordinal")
              ELSE IF ~_tool_available(pend.tool_name, enabled, disabled)
              THEN Outcome(S, fs, ds, NoPending, "unavailable",
                           format_tool_unavailable(pend.tool_name),
                           NoExec, NoPlan, FALSE, NoPending, "ordinal")
              ELSE Execute(S, fs, ds, NoPending, pend.tool_name, params, NoPlan, "ordinal")
              : params \in {IF pend.params.path # NoPath
                            THEN [pend.params EXCEPT !.path = selection_items[ordinal_match + 1].path]
                            ELSE IF pend.params.source # NoPath
                            THEN [pend.params EXCEPT !.source = selection_items[ordinal_match + 1].path]
                            ELSE pend.params}}
        ELSE {}
        : ordinal_match \in {_parse_ordinal_selection(u)},
          selection_items \in {ConversationContext_get_selection_items(S, c)}}

\* the model route: whatever text the model produces is validated before it is returned
ModelRoute(S, fs, ds, pend) ==
    {Outcome(S, fs, ds, pend, IF v.was_blocked THEN "blocked" ELSE "model", v.response,
             NoExec, NoPlan, FALSE, NoPending, "none")
     : v \in {validate_model_response(m, FALSE) : m \in ModelTexts}}

\* chat lines 270-360: a filesystem intent for which the planner returned nothing
IntentFallback(S, fs, ds, c, pend, u, enabled, disabled) ==
    {IF r.confidence = "ambiguous"
     THEN Only({Outcome(S, fs, ds,
                        PendingAction(_map_action_to_tool(action),
                                      IF action \in {"move", "rename"}
                                      THEN MoveParams(EmptyPath, IF dest # NoPath THEN dest ELSE EmptyPath)
                                      ELSE PathParams(EmptyPath),
                                      NoEntity),
                        "disambiguation", format_disambiguation(r.alternatives, action),
                        NoExec, [NoPlan EXCEPT !.alternatives = r.alternatives], TRUE, pend, "none")
                : dest \in {_extract_destination_from_message(u, _get_context_folder, None)}})
     ELSE IF r.entity.id = 0
     THEN Outcome(S, fs, ds, pend, "clarification", ClarifyPaths, NoExec, NoPlan,
                  FALSE, NoPending, "none")
     ELSE IF action = "delete"
     THEN RunPlan(S, fs, ds, pend,
                  PlannedAction("ready", "delete_file", PathParams(r.entity.path), r.entity,
                                FALSE, FALSE, NoPath, <<>>), enabled, disabled)
     ELSE IF action = "read"
     THEN RunPlan(S, fs, ds, pend,
                  PlannedAction("ready", "read_file", PathParams(r.entity.path), r.entity,
                                FALSE, FALSE, NoPath, <<>>), enabled, disabled)
     ELSE IF action \in {"move", "rename"}
     THEN Only({IF dest # NoPath
                THEN RunPlan(S, fs, ds, pend,
                             PlannedAction("ready", "move_file", MoveParams(r.entity.path, dest),
                                           r.entity, FALSE, FALSE, dest, <<>>), enabled, disabled)
                ELSE Outcome(S, fs, ds, pend, "clarification", ClarifyDestination, NoExec,
                             NoPlan, FALSE, NoPending, "none")
                : dest \in {_extract_destination_from_message(u, Dirname(r.entity.path),
                                                              r.entity.name)}})
     ELSE Outcome(S, fs, ds, pend, "clarification", ClarifyPaths, NoExec, NoPlan,
                  FALSE, NoPending, "none")
     : r \in resolve(S, c, u, None, FALSE), action \in {_extract_action_verb(u)}}

\* the possible outcomes of chat(message) in conversation c
chat(S0, fs, ds, c, pend, u, enabled, disabled) ==
    UNION {
        IF ~enabled THEN ModelRoute(S, fs, ds, pend)
        ELSE UNION {
            IF handled # {} THEN handled
            ELSE UNION {
                IF planned.status = "needs_clarification"
                THEN {Outcome(S, fs, ds, pend, "clarification", ClarifyDestination, NoExec, planned,
                              FALSE, NoPending, "none")}
                ELSE IF planned.status = "needs_disambiguation"
                THEN {Outcome(S, fs, ds, PendingAction(planned.tool_name, planned.params, NoEntity),
                              "disambiguation",
                              format_disambiguation(planned.alternatives, _extract_action_verb(u)),
                              NoExec, planned, TRUE, pend, "none")}
                ELSE IF planned.status = "ready" /\ planned.tool_name # None
                THEN {RunPlan(S, fs, ds, pend, planned, enabled, disabled)}
                ELSE IF _looks_like_filesystem_intent(u)
                THEN IntentFallback(S, fs, ds, c, pend, u, enabled, disabled)
                ELSE ModelRoute(S, fs, ds, pend)
                : planned \in _detect_tool_action_with_context(S, c, u)}
            : handled \in {_handle_pending_action(S, fs, ds, c, pend, u, enabled, disabled)}}
        : S \in {increment_turn(S0, c)}}

----------------------------------------------------------------------------
(* The state machine                                                        *)

\* the EntityStore as one value, and back
SNow == [store |-> store, nextId |-> nextId, cs |-> convState]

StoreBecomes(S) ==
    /\ store' = S.store
    /\ nextId' = S.nextId
    /\ convState' = S.cs

NoTurn ==
    [conv |-> None, convBefore |-> None, cid |-> None, utt |-> <<>>, stream |-> FALSE,
     arrived |-> NoPending,
     seen |-> NoPending, kind |-> None, reply |-> <<>>, exec |-> NoExec, plan |-> NoPlan,
     setCalled |-> FALSE, pendingAtSet |-> NoPending, handled |-> "none",
     fsChanged |-> FALSE, sourceIds |-> {}, turnBefore |-> 0, offered |-> <<>>,
     messages |-> <<>>]

NoOp == [op |-> None, result |-> NoResult, afterOk |-> TRUE, raised |-> FALSE]

\* no write in progress.  content is what a reader finds at the target path: "absent",
\* "old" (the complete previous content), "partial" or "new" (the complete new content)
NoWrite ==
    [impl |-> None, phase |-> "idle", target |-> NoPath, data |-> None,
     before |-> "absent", content |-> "absent"]

\* runtime/process_manager.py: the callers of start/stop, the model ids they name
MaxCalls == 3

Callers == 1..MaxCalls

ModelIds == {"leonard-router", "worker"}

NoInstance == [status |-> "stopped", llm |-> FALSE]

NoCall == [op |-> None, model |-> None, pc |-> "idle", ret |-> None, got |-> 0]

\* ProcessManager.__init__: models is empty and _lock is free.  models maps a model
\* id to the ModelInstance registered for it (0: no key); the instance a call of
\* start creates carries the number of that call, and got is the instance a call of
\* start returned to its caller (0: none).  stopped[m] records that a stop or stop_all
\* has unloaded m and no start of m has entered its locked section since
NoProcesses ==
    [models |-> [m \in ModelIds |-> 0],
     stopped |-> [m \in ModelIds |-> FALSE],
     inst |-> [k \in Callers |-> NoInstance],
     lock |-> 0,
     call |-> [k \in Callers |-> NoCall]]

\* engine/router.py: no routing decision taken yet
NoDecision == [model_id |-> None, model_name |-> None, reason |-> None, confidence |-> 0]

NoRouting ==
    [response |-> [prefix |-> FALSE, fenced |-> FALSE, body |-> [json |-> "none"]],
     available |-> <<>>, decision |-> NoDecision]

\* models/registry.py: ROUTER_MODEL, and the registry a first start constructs: no
\* registry file, so _load finds nothing and _ensure_router registers and saves the router
ROUTER_MODEL == [id |-> "leonard-router", name |-> "Leonard Router", role |-> "router",
                 is_downloaded |-> FALSE]

NewRegistry ==
    [models |-> {ROUTER_MODEL}, file |-> [state |-> "saved", models |-> {ROUTER_MODEL}],
     last |-> [op |-> "init", arg |-> None, ret |-> None]]

\* no reference resolved yet
NoResolved ==
    [conv |-> None, utt |-> <<>>, items |-> <<>>, laf |-> 0, lafo |-> 0,
     pronoun |-> [entity |-> NoEntity, confidence |-> "none", alternatives |-> <<>>, via |-> "none"],
     result |-> [entity |-> NoEntity, confidence |-> "none", alternatives |-> <<>>, via |-> "none"]]

\* api/routes/models.py: the download requests a client makes, and the ids they name
MaxDownloads == 3

Requests == 1..MaxDownloads

\* download_id = f"{request.repo_id}:{request.filename}" of the one file requested
DownloadIds == {"repo:a.gguf"}

\* DownloadTracker(): status "pending", cancel_event not set
DownloadTracker == [status |-> "pending", cancel |-> FALSE]

\* the background task of a request: not scheduled
NoTask == [id |-> None, pc |-> "none", tracker |-> 0, saw |-> None]

\* active_downloads = {}: active maps a download id to its tracker (0: no key); the
\* tracker a request creates carries the number of that request, n counts the requests
NoDownloads ==
    [active |-> [d \in DownloadIds |-> 0],
     tracker |-> [k \in Requests |-> DownloadTracker],
     task |-> [k \in Requests |-> NoTask],
     n |-> 0]

\* no move on record
NoMove ==
    [phase |-> "none", a |-> NoPath, b |-> NoPath, files |-> {}, dirs |-> {}, store |-> {},
     cs |-> [c \in AllConvs |-> NoRow]]

Init ==
    /\ files = {FileA, FileB, EtcHosts, VarTmpFile, CwdFileA}
    /\ dirs = {Root, Tmp, DirD, <<"etc">>, <<"var">>, <<"var", "tmp">>, Cwd,
               <<"home">>, Home, Desktop}
    /\ store = {}
    /\ nextId = 1
    /\ convState = [c \in AllConvs |-> NoRow]
    /\ curConv = InitialConv
    /\ pending = NoPending
    /\ toolsEnabled = TRUE
    /\ disabledTools = {}
    /\ msgCount = [c \in AllConvs |-> 0]
    /\ sent = 0
    /\ lastTurn = NoTurn
    /\ lastOp = NoOp
    /\ wr = NoWrite
    /\ inflight = {}
    /\ pm = NoProcesses
    /\ routing = NoRouting
    /\ registry = NewRegistry
    /\ resolved = NoResolved
    /\ mv = NoMove
    /\ conversation = <<>>
    /\ downloads = NoDownloads

\* an entry of LeonardOrchestrator.conversation: its role, with the conversation and
\* the request whose turn appended it
Message(c, role, req) == [conv |-> c, role |-> role, req |-> req]

\* self.conversation[-10:]
LastTen(h) == IF Len(h) <= HistoryWindow THEN h ELSE SubSeq(h, Len(h) - HistoryWindow + 1, Len(h))

\* _build_messages: the history part of the list handed to the model
_build_messages(h) == LastTen(h)

\* routes/chat.py send_message: set_conversation_id builds a new ConversationContext
\* (its _pending_action is None) whenever the request carries a conversation_id
\* POST /chat: send_message of api/routes/chat.py, for the first limit messages
send_message_within(cid, u, stream, limit) ==
    LET c == IF cid # None THEN cid ELSE curConv
        seen == IF cid # None THEN NoPending ELSE pending
    IN /\ sent < limit
       /\ sent' = sent + 1
       /\ \E o \in chat(SNow, files, dirs, c, seen, u, toolsEnabled, disabledTools) :
            /\ StoreBecomes(o.S)
            /\ files' = o.files
            /\ dirs' = o.dirs
            /\ pending' = o.pending
            /\ lastTurn' =
                 [conv |-> c, convBefore |-> curConv, cid |-> cid, utt |-> u, stream |-> stream,
                  arrived |-> pending,
                  seen |-> seen, kind |-> o.kind, reply |-> o.reply, exec |-> o.exec,
                  plan |-> o.plan, setCalled |-> o.setCalled, pendingAtSet |-> o.pendingAtSet,
                  handled |-> o.handled,
                  fsChanged |-> (o.files # files \/ o.dirs # dirs),
                  sourceIds |-> {e.id : e \in {x \in get_all(SNow, c) :
                                                 /\ o.exec.tool = "move_file"
                                                 /\ x.path = Resolved(o.exec.params.source)}},
                  turnBefore |-> get_turn_index(SNow, c),
                  offered |-> IF lastTurn.kind = "disambiguation" /\ lastTurn.conv = c
                              THEN lastTurn.plan.alternatives ELSE <<>>,
                  messages |-> IF o.kind \in {"model", "blocked"}
                               THEN _build_messages(Append(conversation, Message(c, "user", sent + 1)))
                               ELSE <<>>]
            /\ conversation' =
                 IF o.kind = "raised" THEN Append(conversation, Message(c, "user", sent + 1))
                 ELSE conversation \o <<Message(c, "user", sent + 1), Message(c, "assistant", sent + 1)>>
       /\ curConv' = c
       /\ msgCount' = [msgCount EXCEPT ![c] = @ + 1]
       /\ lastOp' = NoOp
       /\ UNCHANGED <<toolsEnabled, disabledTools, wr, inflight, pm, routing, registry, resolved, mv, downloads>>

send_message(cid, u, stream) == send_message_within(cid, u, stream, MaxTurns)

Chat(cid, u) == send_message(cid, u, FALSE)

ChatStream(cid, u) == send_message(cid, u, TRUE)

\* LeonardOrchestrator.clear_conversation
ClearConversation ==
    /\ StoreBecomes(clear_conversation(SNow, curConv))
    /\ pending' = NoPending
    /\ msgCount' = [msgCount EXCEPT ![curConv] = 0]
    /\ lastTurn' = NoTurn
    /\ lastOp' = [NoOp EXCEPT !.op = "clear"]
    /\ conversation' = <<>>
    /\ UNCHANGED <<sent, wr, inflight, pm, routing, registry, resolved, mv, downloads>>

ClearChat ==
    /\ ClearConversation
    /\ UNCHANGED <<files, dirs, curConv, toolsEnabled, disabledTools>>

ToggleTools(enabled) ==
    /\ toolsEnabled' = enabled
    /\ ClearConversation
    /\ UNCHANGED <<files, dirs, curConv, disabledTools>>

SetToolEnabled(tool_id, enabled) ==
    /\ tool_id \in FILESYSTEM_TOOLS
    /\ disabledTools' = IF enabled THEN disabledTools \ {tool_id} ELSE disabledTools \cup {tool_id}
    /\ lastTurn' = NoTurn
    /\ lastOp' = NoOp
    /\ UNCHANGED <<files, dirs, store, nextId, convState, curConv, pending, toolsEnabled, msgCount, sent, wr, inflight, pm, routing, registry, resolved, mv, conversation, downloads>>

\* ConversationContext(conversation_id = c, store).track_entity(path, FILE, ...)
TrackEntity(c, p) ==
    /\ \E o \in track_entity(SNow, c, p, "file", TRUE) : StoreBecomes(o.S)
    /\ lastTurn' = NoTurn
    /\ lastOp' = NoOp
    /\ UNCHANGED <<files, dirs, curConv, pending, toolsEnabled, disabledTools, msgCount, sent, wr, inflight, pm, routing, registry, resolved, mv, conversation, downloads>>

\* track_entity(path, FILE, ..., set_active=False), as for the items of a listing
TrackListed(c, p) ==
    /\ \E o \in track_entity(SNow, c, p, "file", FALSE) : StoreBecomes(o.S)
    /\ lastTurn' = NoTurn
    /\ lastOp' = NoOp
    /\ UNCHANGED <<files, dirs, curConv, pending, toolsEnabled, disabledTools, msgCount, sent, wr, inflight, pm, routing, registry, resolved, mv, conversation, downloads>>

\* a verified primitive of FileOperations; r is [files, dirs, result]
FileOp(op, r) ==
    /\ files' = r.files
    /\ dirs' = r.dirs
    /\ lastOp' = [op |-> op, result |-> r.result,
                  afterOk |-> \A k \in 1..Len(r.result.after_paths) :
                                  Exists(r.files, r.dirs, r.result.after_paths[k]),
                  raised |-> FALSE]
    /\ lastTurn' = NoTurn
    /\ UNCHANGED <<store, nextId, convState, curConv, pending, toolsEnabled, disabledTools, msgCount, sent, wr, inflight, pm, routing, registry, resolved, mv, conversation, downloads>>

ListDirectory(p) == FileOp("list", FileOperations_list_directory(files, dirs, p))

WriteFile(p) == FileOp("write", FileOperations_write_file(files, dirs, p))

MoveFile(src, dst) == FileOp("move", FileOperations_move_file(files, dirs, src, dst))

CopyFile(src, dst) == FileOp("copy", FileOperations_copy_file(files, dirs, src, dst))

DeleteFile(p) == FileOp("delete", FileOperations_delete_file(files, dirs, p))

CreateDirectory(p) == FileOp("create", FileOperations_create_directory(files, dirs, p))

ReadFile(p) == FileOp("read", FileOperations_read_file(files, dirs, p))

DeleteByPattern(d, pattern) ==
    FileOp("delete_by_pattern", FileOperations_delete_by_pattern(files, dirs, d, pattern))

\* delete_by_pattern on a disk where the files in locked cannot be unlinked
DeleteByPatternLocked(d, pattern, locked) ==
    FileOp("delete_by_pattern", delete_by_pattern(files, dirs, d, pattern, locked))

SearchFiles(d, pattern) == FileOp("search", FileOperations_search_files(files, dirs, d, pattern))

\* ToolExecutor.execute(tool_name, parameters) called on its own; r is its outcome
ToolCall(tool_name, r) ==
    /\ files' = r.files
    /\ dirs' = r.dirs
    /\ lastOp' = [op |-> tool_name,
                  result |-> IF r.raised THEN NoResult
                             ELSE ToolResult(StatusOf(r.success), tool_name, NoOutput,
                                             <<>>, <<>>, <<>>, r.verification),
                  afterOk |-> TRUE,
                  raised |-> r.raised]
    /\ lastTurn' = NoTurn
    /\ UNCHANGED <<store, nextId, convState, curConv, pending, toolsEnabled, disabledTools, msgCount, sent, wr, inflight, pm, routing, registry, resolved, mv, conversation, downloads>>

ExecuteTool(tool_name, params) ==
    ToolCall(tool_name, ToolExecutor_execute(files, dirs, tool_name, params))

\* tempfile.NamedTemporaryFile(delete=False, dir=target.parent)
TempFileOf(target) == Join(Dirname(target), "tmpw")

WriteStep(w) ==
    /\ wr' = w
    /\ lastTurn' = NoTurn
    /\ UNCHANGED <<store, nextId, convState, curConv, pending, toolsEnabled, disabledTools, msgCount, sent, inflight, pm, routing, registry, resolved, mv, conversation, downloads>>

\* FileOperations.write_file up to the creation of the temporary file (file_ops.py 160-171)
FileOps_write_begin(path, data) ==
    /\ wr.phase \in {"idle", "done", "failed", "raised", "interrupted"}
    /\ \E target \in {Resolved(path)}, before \in {IF Resolved(path) \in files THEN "old" ELSE "absent"} :
          IF ~_ensure_allowed(path) \/ ~ParentsCreatable(files, target)
          THEN /\ WriteStep([impl |-> "file_ops", phase |-> "failed", target |-> target,
                             data |-> data, before |-> before, content |-> before])
               /\ lastOp' = [NoOp EXCEPT !.op = "write",
                                         !.result = _verification_failure("write", <<path>>)]
               /\ UNCHANGED <<files, dirs>>
          ELSE /\ WriteStep([impl |-> "file_ops", phase |-> "temp_open", target |-> target,
                             data |-> data, before |-> before, content |-> before])
               /\ dirs' = WithParents(dirs, target)
               /\ files' = files \cup {TempFileOf(target)}
               /\ lastOp' = NoOp

\* tmp.write, tmp.flush, os.fsync: the bytes go to the temporary file (file_ops.py 172-175)
FileOps_write_temp ==
    /\ wr.impl = "file_ops" /\ wr.phase = "temp_open"
    /\ WriteStep([wr EXCEPT !.phase = "temp_full"])
    /\ UNCHANGED <<files, dirs, lastOp>>

\* os.replace(temp_name, target), verify_write and the result (file_ops.py 177-203)
FileOps_write_replace ==
    /\ wr.impl = "file_ops" /\ wr.phase = "temp_full"
    /\ IF wr.target \in dirs \/ TempFileOf(wr.target) \notin files
       THEN /\ WriteStep([wr EXCEPT !.phase = "failed"])
            /\ lastOp' = [NoOp EXCEPT !.op = "write",
                                      !.result = _verification_failure("write", <<wr.target>>)]
            /\ UNCHANGED <<files, dirs>>
       ELSE /\ WriteStep([wr EXCEPT !.phase = "done", !.content = "new"])
            /\ files' = (files \ {TempFileOf(wr.target)}) \cup {wr.target}
            /\ lastOp' = [op |-> "write",
                          result |-> ToolResult("success", "write",
                                                [path |-> wr.target, items |-> <<>>],
                                                IF wr.before = "old" THEN <<wr.target>> ELSE <<>>,
                                                <<wr.target>>, <<wr.target>>, "passed"),
                          afterOk |-> TRUE, raised |-> FALSE]
            /\ UNCHANGED dirs

\* WriteFileTool.execute up to open(file_path, "w"), which creates or truncates the
\* target itself (filesystem.py 194-201)
WriteFileTool_open(path, data) ==
    /\ wr.phase \in {"idle", "done", "failed", "raised", "interrupted"}
    /\ \E target \in {Resolved(path)}, before \in {IF Resolved(path) \in files THEN "old" ELSE "absent"} :
          IF ~ParentsCreatable(files, target) \/ target \in dirs
          THEN /\ WriteStep([impl |-> "tool", phase |-> "raised", target |-> target,
                             data |-> data, before |-> before, content |-> before])
               /\ dirs' = IF ParentsCreatable(files, target) THEN WithParents(dirs, target) ELSE dirs
               /\ lastOp' = [NoOp EXCEPT !.op = "write_file", !.raised = TRUE]
               /\ UNCHANGED files
          ELSE /\ WriteStep([impl |-> "tool", phase |-> "open", target |-> target,
                             data |-> data, before |-> before,
                             content |-> IF data = "empty" THEN "new" ELSE "partial"])
               /\ dirs' = WithParents(dirs, target)
               /\ files' = files \cup {target}
               /\ lastOp' = NoOp

\* f.write(content) and the close at the end of the with block; the ToolResult built
\* after it raises (filesystem.py 201-210)
WriteFileTool_close ==
    /\ wr.impl = "tool" /\ wr.phase = "open"
    /\ WriteStep([wr EXCEPT !.phase = "raised", !.content = "new"])
    /\ lastOp' = [NoOp EXCEPT !.op = "write_file",
                              !.raised = ToolResult_init_raises(RegisteredToolKwargs)]
    /\ UNCHANGED <<files, dirs>>

\* the process stops, or the disk fills up, in the middle of a write
WriteInterrupted ==
    /\ wr.phase \in {"temp_open", "temp_full", "open"}
    /\ WriteStep([wr EXCEPT !.phase = "interrupted"])
    /\ UNCHANGED <<files, dirs, lastOp>>

\* ConversationContext(conversation_id = c, store) tracks the result of the last primitive
TrackFromToolResult(c) ==
    /\ lastOp.result.status = "success"
    /\ \E S \in track_from_tool_result(SNow, c, lastOp.result) : StoreBecomes(S)
    /\ lastOp' = NoOp
    /\ lastTurn' = NoTurn
    /\ UNCHANGED <<files, dirs, curConv, pending, toolsEnabled, disabledTools, msgCount, sent, wr, inflight, pm, routing, registry, resolved, mv, conversation, downloads>>

ConversationIds == Convs \cup {None}

\* the file a caller tracks in each conversation
TrackedFile(c) == IF c = "c2" THEN FileB ELSE FileA

\* the confirmation flow across conversations
FlowUtterances ==
    { <<"hi">>, <<"yes">>, <<"no">>, <<"2">>, <<"delete", "it">>,
      <<"rename", "it", "to", "b.txt">>, <<"delete", "folder", "done">> }

Next ==
    \/ \E cid \in ConversationIds, u \in FlowUtterances : Chat(cid, u)
    \/ \E cid \in ConversationIds, u \in FlowUtterances : ChatStream(cid, u)
    \/ ClearChat
    \/ \E c \in Convs : TrackEntity(c, TrackedFile(c))

Spec == Init /\ [][Next]_vars

\* explicit paths, listings and ordinals in the conversation the process starts with
PathUtterances ==
    { <<"yes">>, <<"2">>, <<"last">>, <<"delete", "the", "second", "one">>,
      <<"delete", "/etc/hosts">>, <<"delete", "/var/tmp/a+.txt">>,
      <<"delete", "/tmp/d/a.txt">>, <<"what's", "in", "/tmp/d">>, <<"delete", "it">> }

NextPaths ==
    \/ \E u \in PathUtterances : Chat(None, u)
    \/ ListDirectory(DirD)
    \/ TrackFromToolResult(curConv)

SpecPaths == Init /\ [][NextPaths]_vars

\* tools switched off and on
ToolUtterances ==
    { <<"hi">>, <<"yes">>, <<"2">>, <<"delete", "it">>, <<"rename", "it", "to", "b.txt">>,
      <<"delete", "the", "second", "one">>, <<"delete", "/var/tmp/a+.txt">>,
      <<"delete", "folder", "done">> }

NextTools ==
    \/ \E u \in ToolUtterances : Chat(None, u)
    \/ \E enabled \in BOOLEAN : ToggleTools(enabled)
    \/ \E tool_id \in {"delete_file", "move_file"}, enabled \in BOOLEAN : SetToolEnabled(tool_id, enabled)
    \/ TrackEntity(InitialConv, TrackedFile(InitialConv))
    \/ ListDirectory(DirD)
    \/ TrackFromToolResult(curConv)

SpecTools == Init /\ [][NextTools]_vars

VarTmp == <<"var", "tmp">>
VarTmpB == <<"var", "tmp", "b.txt">>
VarTmpD == <<"var", "tmp", "d">>
System == <<"System">>

\* the verified primitives called as a library, inside and outside the allowed roots
NextOps ==
    \/ \E p \in {FileA, EtcHosts} : ReadFile(p)
    \/ \E p \in {DirD, VarTmp} : ListDirectory(p)
    \/ \E p \in {FileA, VarTmpB, Home} : WriteFile(p)
    \/ \E src \in {FileA, VarTmpFile}, dst \in {FileB, VarTmpB} : MoveFile(src, dst)
    \/ \E src \in {FileB, EtcHosts}, dst \in {FileA, VarTmpB} : CopyFile(src, dst)
    \/ \E p \in {FileB, EtcHosts, Root, Home, System} : DeleteFile(p)
    \/ \E d \in {DirD, VarTmp} : DeleteByPattern(d, <<"*.txt">>)
    \/ \E p \in {DesktopDone, VarTmpD} : CreateDirectory(p)
    \/ \E d \in {DirD, VarTmp} : SearchFiles(d, "a*")
    \/ \E p \in {FileA, Home, Root} : ExecuteTool("delete_file", PathParams(p))
    \/ ExecuteTool("move_file", MoveParams(FileA, FileB))
    \/ \E name \in {"list_directory", "no_such_tool"} : ExecuteTool(name, PathParams(DirD))

SpecOps == Init /\ [][NextOps]_vars

CwdFileB == <<"srv", "b.txt">>

\* a file named where two tracked files carry the name, and the answers to the question
PickUtterances ==
    { <<"delete", "the", "file", "b.txt">>, <<"1">>, <<"2">>, <<"yes">>, <<"no">> }

NextPick ==
    \/ \E u \in PickUtterances : Chat(None, u)
    \/ \E p \in {FileB, CwdFileB} : TrackListed(InitialConv, p)
    \/ TrackEntity(InitialConv, FileA)
    \/ ListDirectory(DirD)
    \/ TrackFromToolResult(curConv)

SpecPick == Init /\ [][NextPick]_vars

NewFile == <<"tmp", "d", "n.txt">>
FileData == {"empty", "text"}

\* writes step by step, by the verified primitive and by the registered tool
NextWrite ==
    \/ \E p \in {FileA, NewFile, Home, VarTmpB}, data \in FileData : FileOps_write_begin(p, data)
    \/ FileOps_write_temp
    \/ FileOps_write_replace
    \/ \E p \in {FileA, NewFile, Home}, data \in FileData : WriteFileTool_open(p, data)
    \/ WriteFileTool_close
    \/ WriteInterrupted
    \/ wr.phase \notin {"temp_open", "temp_full", "open"} /\ \E p \in {FileA, NewFile} : DeleteFile(p)

SpecWrite == Init /\ [][NextWrite]_vars

----------------------------------------------------------------------------
(* Turns that suspend.  send_message is a coroutine on the one event loop   *)
(* of the process and all requests share the one LeonardOrchestrator of     *)
(* orchestrator_store; a turn that executes a tool never suspends (the      *)
(* tools do blocking calls), a turn that goes to a model suspends in        *)
(* router.route / process_manager.chat (run_in_executor).                   *)

\* send_message and chat up to `await self.router.route(message)` (orchestrator.py 364):
\* set_conversation_id, next_turn and the append of the user message are done
send_message_await(cid, u) ==
    /\ sent < MaxTurns
    /\ sent' = sent + 1
    /\ \E c \in {IF cid # None THEN cid ELSE curConv} :
         /\ \E o \in chat(SNow, files, dirs, c, IF cid # None THEN NoPending ELSE pending, u,
                          toolsEnabled, disabledTools) :
              /\ o.kind \in {"model", "blocked"}
              /\ StoreBecomes(o.S)
              /\ pending' = o.pending
         /\ curConv' = c
         /\ msgCount' = [msgCount EXCEPT ![c] = @ + 1]
         /\ inflight' = inflight \cup {[req |-> sent + 1, conv |-> c, utt |-> u]}
         /\ conversation' = Append(conversation, Message(c, "user", sent + 1))
    /\ lastOp' = NoOp
    /\ UNCHANGED <<files, dirs, toolsEnabled, disabledTools, lastTurn, wr, pm, routing, registry, resolved, mv, downloads>>

\* a chat that calls next_turn on the current context once more after the model call
model_replies_then_next_turn(t, m) ==
    /\ t \in inflight
    /\ inflight' = inflight \ {t}
    /\ \E v \in {validate_model_response(m, FALSE)} :
         lastTurn' = [NoTurn EXCEPT !.conv = t.conv, !.convBefore = curConv, !.utt = t.utt,
                                    !.kind = IF v.was_blocked THEN "blocked" ELSE "model",
                                    !.reply = v.response,
                                    !.messages = _build_messages(conversation)]
    /\ conversation' = Append(conversation, Message(t.conv, "assistant", t.req))
    /\ lastOp' = NoOp
    /\ StoreBecomes(increment_turn(SNow, curConv))
    /\ UNCHANGED <<files, dirs, curConv, pending, toolsEnabled,
                   disabledTools, msgCount, sent, wr, pm, routing, registry, resolved, mv, downloads>>

\* the rest of chat for a suspended turn: the model's text arrives, is validated and returned
model_replies(t, m) ==
    /\ t \in inflight
    /\ inflight' = inflight \ {t}
    /\ \E v \in {validate_model_response(m, FALSE)} :
         lastTurn' = [NoTurn EXCEPT !.conv = t.conv, !.convBefore = curConv, !.utt = t.utt,
                                    !.kind = IF v.was_blocked THEN "blocked" ELSE "model",
                                    !.reply = v.response,
                                    !.messages = _build_messages(conversation)]
    /\ conversation' = Append(conversation, Message(t.conv, "assistant", t.req))
    /\ lastOp' = NoOp
    /\ UNCHANGED <<files, dirs, store, nextId, convState, curConv, pending, toolsEnabled,
                   disabledTools, msgCount, sent, wr, pm, routing, registry, resolved, mv, downloads>>

\* messages that go to a model, and messages that run to their end without suspending
SuspendingUtterances == { <<"hi">> }

AtomicUtterances == { <<"delete", "it">>, <<"yes">> }

NextTurns ==
    \/ \E cid \in ConversationIds, u \in SuspendingUtterances : send_message_await(cid, u)
    \/ \E t \in inflight, m \in ModelTexts : model_replies(t, m)
    \/ \E cid \in ConversationIds, u \in AtomicUtterances : Chat(cid, u)
    \/ \E c \in Convs : TrackEntity(c, TrackedFile(c))

SpecTurns == Init /\ [][NextTurns]_vars

----------------------------------------------------------------------------
(* ProcessManager.start and ProcessManager.stop, one step per acquisition   *)
(* of _lock and one per locked section                                      *)

ProcessStep(p) ==
    /\ pm' = p
    /\ UNCHANGED <<files, dirs, store, nextId, convState, curConv, pending, toolsEnabled,
                   disabledTools, msgCount, sent, lastTurn, lastOp, wr, inflight, routing, registry, resolved, mv, conversation, downloads>>

\* ProcessManager._unload_model
_unload_model(p, model_id) ==
    IF p.models[model_id] = 0 THEN p
    ELSE [p EXCEPT !.inst[p.models[model_id]] = NoInstance, !.models[model_id] = 0]

\* `async with self._lock:` at the head of start (line 70) or stop (line 150)
ProcessManager_acquire(k, op, model_id) ==
    /\ pm.call[k].pc = "idle"
    /\ pm.lock = 0
    /\ ProcessStep([pm EXCEPT !.lock = k,
                              !.call[k] = [op |-> op, model |-> model_id, pc |-> "locked",
                                           ret |-> None, got |-> 0],
                              !.stopped = [m \in ModelIds |-> @[m] /\ ~(op = "start" /\ m = model_id)]])

\* start, lines 71-91, and the release of the lock that ends the block
ProcessManager_start_register(k, path_exists) ==
    /\ pm.call[k].op = "start" /\ pm.call[k].pc = "locked"
    /\ \E m \in {pm.call[k].model} :
         IF pm.models[m] # 0 /\ pm.inst[pm.models[m]].status = "running"
         THEN ProcessStep([pm EXCEPT !.lock = 0, !.call[k].pc = "done",
                                     !.call[k].ret = "existing",
                                     !.call[k].got = pm.models[m]])
         ELSE IF ~path_exists
         THEN ProcessStep([_unload_model(pm, m) EXCEPT !.lock = 0, !.call[k].pc = "done",
                                                       !.call[k].ret = "FileNotFoundError"])
         ELSE ProcessStep([_unload_model(pm, m) EXCEPT
                               !.inst[k] = [status |-> "loading", llm |-> FALSE],
                               !.models[m] = k,
                               !.lock = 0,
                               !.call[k].pc = "loading"])

\* start, lines 95-97 and 104-105: _load_model has returned or raised, in the thread
\* pool and outside the lock; the call takes the lock again
ProcessManager_start_loaded(k, loaded) ==
    /\ pm.call[k].op = "start" /\ pm.call[k].pc = "loading"
    /\ pm.lock = 0
    /\ ProcessStep([pm EXCEPT !.lock = k,
                              !.call[k].pc = IF loaded THEN "locked_ok" ELSE "locked_err"])

\* start, lines 98-102 and 106-109
ProcessManager_start_finish(k) ==
    /\ pm.call[k].op = "start" /\ pm.call[k].pc \in {"locked_ok", "locked_err"}
    /\ IF pm.call[k].pc = "locked_ok"
       THEN ProcessStep([pm EXCEPT !.inst[k] = [status |-> "running", llm |-> TRUE],
                                   !.lock = 0, !.call[k].pc = "done", !.call[k].ret = "instance",
                                   !.call[k].got = k])
       ELSE ProcessStep([pm EXCEPT !.inst[k].status = "error",
                                   !.lock = 0, !.call[k].pc = "done",
                                   !.call[k].ret = "RuntimeError"])

\* stop, lines 151-157
ProcessManager_stop(k) ==
    /\ pm.call[k].op = "stop" /\ pm.call[k].pc = "locked"
    /\ \E m \in {pm.call[k].model} :
         ProcessStep([_unload_model(pm, m) EXCEPT !.lock = 0, !.call[k].pc = "done",
                                                  !.call[k].ret = IF pm.models[m] # 0 THEN "True" ELSE "False",
                                                  !.stopped[m] = TRUE])

\* _unload_model for each key of self.models
RECURSIVE UnloadAll(_, _)
UnloadAll(p, ids) ==
    IF ids = {} THEN p
    ELSE UnloadAll(_unload_model(p, CHOOSE m \in ids : TRUE), ids \ {CHOOSE m \in ids : TRUE})

\* stop_all, lines 159-163, as shutdown calls it
ProcessManager_stop_all(k) ==
    /\ pm.call[k].op = "stop_all" /\ pm.call[k].pc = "locked"
    /\ ProcessStep([UnloadAll(pm, ModelIds) EXCEPT !.lock = 0, !.call[k].pc = "done",
                                                   !.call[k].ret = "None",
                                                   !.stopped = [m \in ModelIds |-> TRUE]])

NextProcesses ==
    \/ \E k \in Callers, op \in {"start", "stop"}, m \in ModelIds : ProcessManager_acquire(k, op, m)
    \/ \E k \in Callers, path_exists \in BOOLEAN : ProcessManager_start_register(k, path_exists)
    \/ \E k \in Callers, loaded \in BOOLEAN : ProcessManager_start_loaded(k, loaded)
    \/ \E k \in Callers : ProcessManager_start_finish(k)
    \/ \E k \in Callers : ProcessManager_stop(k)
    \/ \E k \in Callers : ProcessManager_acquire(k, "stop_all", None)
    \/ \E k \in Callers : ProcessManager_stop_all(k)

SpecProcesses == Init /\ [][NextProcesses]_vars

----------------------------------------------------------------------------
(* Router.route: the answer of the router model is parsed into a decision.  *)
(* An answer is the text before a ``` fence (prefix), whether it is fenced, *)
(* and its body: NotJson, a JSON value that is no object (JsonList), or a   *)
(* JSON object, of which only the key model_id matters here.  general is    *)
(* capabilities.get(GENERAL, 0) in tenths.                                  *)

WorkerPool ==
    { [id |-> "w1", name |-> "Alpha", general |-> 5],
      [id |-> "w2", name |-> "Beta", general |-> 9],
      [id |-> "w3", name |-> "Gamma", general |-> 9],
      [id |-> "w4", name |-> "Delta", general |-> 0] }

MaxWorkers == 3

\* registry.get_available_workers(): the downloaded workers in registry order, not empty
AvailableLists ==
    {a \in UNION {[1..n -> WorkerPool] : n \in 1..MaxWorkers} :
        \A i \in 1..Len(a), j \in 1..Len(a) : a[i] = a[j] => i = j}

NotJson == [json |-> "invalid"]

JsonList == [json |-> "list"]

\* data.get("model_id", ""): "" stands for an object without the key
ModelIdAnswers == {"w1", "w2", "w4", "w9", "beta-7b", ""}

JsonObject(model_id) == [json |-> "object", model_id |-> model_id]

RouterAnswers ==
    [prefix : BOOLEAN, fenced : BOOLEAN,
     body : {NotJson, JsonList} \cup {JsonObject(i) : i \in ModelIdAnswers}]

\* str.lower() of a model name
LowerName(n) ==
    CASE n = "Alpha" -> "alpha" [] n = "Beta" -> "beta" [] n = "Gamma" -> "gamma"
      [] n = "Delta" -> "delta" [] OTHER -> n

\* a in b, for the lowercase strings above
Substring(a, b) == a = "" \/ a = b \/ (a = "beta" /\ b = "beta-7b")

\* lines 147-155: strip, take what follows a leading fence, json.loads
json_loads(response) ==
    IF response.prefix /\ response.fenced THEN NotJson ELSE response.body

\* max(available, key=general): the first of the workers with the greatest score
_fallback_routing(available) ==
    Only({[model_id |-> available[i].id, model_name |-> available[i].name,
           reason |-> "fallback", confidence |-> 5]
          : i \in {j \in 1..Len(available) :
                     /\ \A k \in 1..Len(available) : available[k].general <= available[j].general
                     /\ \A k \in 1..(j - 1) : available[k].general < available[j].general}})

\* the first worker whose name contains, or is contained in, the answered id; 0 if none
NameMatch(model_id, available) ==
    MinOf({i \in 1..Len(available) :
             \/ Substring(LowerName(available[i].name), model_id)
             \/ Substring(model_id, LowerName(available[i].name))})

Chosen(available, i) ==
    [model_id |-> available[i].id, model_name |-> available[i].name,
     reason |-> "router", confidence |-> 7]

\* "AttributeError" is the exception data.get raises on a JSON value that is no
\* object; it is not among the exceptions the function catches
_parse_routing_response(response, available) ==
    IF json_loads(response) = NotJson THEN _fallback_routing(available)
    ELSE IF json_loads(response) = JsonList
    THEN [NoDecision EXCEPT !.reason = "AttributeError"]
    ELSE IF \E i \in 1..Len(available) : available[i].id = json_loads(response).model_id
    THEN Chosen(available, MinOf({i \in 1..Len(available) :
                                    available[i].id = json_loads(response).model_id}))
    ELSE IF NameMatch(json_loads(response).model_id, available) # 0
    THEN Chosen(available, NameMatch(json_loads(response).model_id, available))
    ELSE Chosen(available, 1)

\* route, lines 113-127: `except Exception` turns what the parser raises into the fallback
route(response, available) ==
    IF _parse_routing_response(response, available).reason = "AttributeError"
    THEN _fallback_routing(available)
    ELSE _parse_routing_response(response, available)

Route(response, available) ==
    /\ routing' = [response |-> response, available |-> available,
                   decision |-> route(response, available)]
    /\ UNCHANGED <<files, dirs, store, nextId, convState, curConv, pending, toolsEnabled,
                   disabledTools, msgCount, sent, lastTurn, lastOp, wr, inflight, pm, registry, resolved, mv, conversation, downloads>>

NextRouting == \E response \in RouterAnswers, available \in AvailableLists : Route(response, available)

SpecRouting == Init /\ [][NextRouting]_vars

----------------------------------------------------------------------------
(* ModelRegistry.  models is the dict as the set of its values; file is the *)
(* registry.json: "saved" with the models written, "absent" or "corrupt".   *)

MaxModels == 3

ModelNames == {"Alpha", "Leonard Router"}

\* name.lower().replace(" ", "-").replace(".", "-")
SlugOf(name) == IF name = "Leonard Router" THEN "leonard-router" ELSE "alpha"

\* f"{base_id}-{counter}" for counter = 1, 2
Suffixed(base_id, counter) ==
    CASE base_id = "alpha" /\ counter = 1 -> "alpha-1"
      [] base_id = "alpha" /\ counter = 2 -> "alpha-2"
      [] base_id = "leonard-router" /\ counter = 1 -> "leonard-router-1"
      [] base_id = "leonard-router" /\ counter = 2 -> "leonard-router-2"
      [] OTHER -> "overflow"

ModelKeys(models) == {m.id : m \in models}

\* register, lines 140-147: the first of base_id, base_id-1, base_id-2 that is no key
UniqueId(models, base_id) ==
    IF base_id \notin ModelKeys(models) THEN base_id
    ELSE IF Suffixed(base_id, 1) \notin ModelKeys(models) THEN Suffixed(base_id, 1)
    ELSE Suffixed(base_id, 2)

\* register, lines 149-163
ModelRegistry_register(models, name) ==
    [models |-> models \cup {[id |-> UniqueId(models, SlugOf(name)), name |-> name,
                              role |-> "worker", is_downloaded |-> FALSE]},
     ret |-> UniqueId(models, SlugOf(name))]

\* update_download_status, lines 169-172
ModelRegistry_update_download_status(models, model_id, is_downloaded) ==
    [models |-> {IF m.id = model_id THEN [m EXCEPT !.is_downloaded = is_downloaded] ELSE m
                 : m \in models},
     ret |-> None]

\* delete without the test for the router id
ModelRegistry_delete_any(models, model_id) ==
    IF model_id \in ModelKeys(models)
    THEN [models |-> {m \in models : m.id # model_id}, ret |-> "True"]
    ELSE [models |-> models, ret |-> "False"]

\* delete, lines 227-232
ModelRegistry_delete(models, model_id) ==
    IF model_id \in ModelKeys(models) /\ model_id # ROUTER_MODEL.id
    THEN [models |-> {m \in models : m.id # model_id}, ret |-> "True"]
    ELSE [models |-> models, ret |-> "False"]

\* _load: the models of the file; none when there is no file or it cannot be read
_load(file) == IF file.state \in {"absent", "corrupt"} THEN {} ELSE file.models

\* _save
_save(models) == [state |-> "saved", models |-> models]

\* _ensure_router
_ensure_router(models) ==
    IF ROUTER_MODEL.id \notin ModelKeys(models) THEN models \cup {ROUTER_MODEL} ELSE models

RegistryStep(r) ==
    /\ registry' = r
    /\ UNCHANGED <<files, dirs, store, nextId, convState, curConv, pending, toolsEnabled,
                   disabledTools, msgCount, sent, lastTurn, lastOp, wr, inflight, pm, routing, resolved, mv, conversation, downloads>>

\* a call that changed self.models ends in _save
RegistryCall(op, arg, r) ==
    RegistryStep([models |-> r.models,
                  file |-> IF r.models # registry.models THEN _save(r.models) ELSE registry.file,
                  last |-> [op |-> op, arg |-> arg, ret |-> r.ret]])

Register(name) ==
    /\ Cardinality(registry.models) < MaxModels
    /\ RegistryStep([models |-> ModelRegistry_register(registry.models, name).models,
                     file |-> _save(ModelRegistry_register(registry.models, name).models),
                     last |-> [op |-> "register", arg |-> name,
                               ret |-> ModelRegistry_register(registry.models, name).ret]])

UpdateDownloadStatus(model_id, is_downloaded) ==
    RegistryStep([models |-> ModelRegistry_update_download_status(registry.models, model_id,
                                                                   is_downloaded).models,
                  file |-> IF model_id \in ModelKeys(registry.models)
                           THEN _save(ModelRegistry_update_download_status(
                                          registry.models, model_id, is_downloaded).models)
                           ELSE registry.file,
                  last |-> [op |-> "update", arg |-> model_id, ret |-> None]])

Delete(model_id) ==
    RegistryCall("delete", model_id, ModelRegistry_delete(registry.models, model_id))

\* the registry file is lost or damaged between two runs of the process
RegistryFileLost(file) ==
    /\ file \in {"absent", "corrupt"}
    /\ RegistryStep([registry EXCEPT !.file = [state |-> file, models |-> {}],
                                     !.last = [op |-> "file", arg |-> file, ret |-> None]])

\* ModelRegistry.__init__ in a new process: _load, then _ensure_router (which saves
\* when it had to add the router)
Load ==
    RegistryStep([models |-> _ensure_router(_load(registry.file)),
                  file |-> IF _ensure_router(_load(registry.file)) # _load(registry.file)
                           THEN _save(_ensure_router(_load(registry.file))) ELSE registry.file,
                  last |-> [op |-> "load", arg |-> None, ret |-> None]])

RegistryIds == {"leonard-router", "alpha", "alpha-1", "leonard-router-1", "w9"}

NextRegistry ==
    \/ \E name \in ModelNames : Register(name)
    \/ \E model_id \in RegistryIds, is_downloaded \in BOOLEAN : UpdateDownloadStatus(model_id, is_downloaded)
    \/ \E model_id \in RegistryIds : Delete(model_id)
    \/ \E file \in {"absent", "corrupt"} : RegistryFileLost(file)
    \/ Load

SpecRegistry == Init /\ [][NextRegistry]_vars

----------------------------------------------------------------------------
(* ConversationContext over the verified primitives: results are tracked,   *)
(* references are resolved                                                  *)

\* ConversationContext(conversation_id = c, store).resolve(utterance); pronoun is what
\* step 3 of resolve gets from _resolve_pronoun
Resolve(c, u) ==
    /\ \E r \in resolve(SNow, c, u, None, FALSE) :
         resolved' = [conv |-> c, utt |-> u,
                      items |-> ConversationContext_get_selection_items(SNow, c),
                      laf |-> get_last_active_file(SNow, c).id,
                      lafo |-> get_last_active_folder(SNow, c).id,
                      pronoun |-> _resolve_pronoun(SNow, c, u, None),
                      result |-> r]
    /\ UNCHANGED <<files, dirs, store, nextId, convState, curConv, pending, toolsEnabled,
                   disabledTools, msgCount, sent, lastTurn, lastOp, wr, inflight, pm, routing,
                   registry, mv, conversation, downloads>>

OrdinalNames == <<"first", "second", "third", "fourth", "fifth">>

OrdinalUtterance(k) == <<"delete", "the", OrdinalNames[k], "one">>

ResolveUtterances ==
    {OrdinalUtterance(k) : k \in {1, 2, 3}} \cup { <<"delete", "the", "last", "one">>, <<"delete", "it">> }

NextContext ==
    \/ ListDirectory(DirD)
    \/ \E pattern \in {"a*", "*.txt"} : SearchFiles(DirD, pattern)
    \/ DeleteFile(FileB)
    \/ TrackFromToolResult(curConv)
    \/ \E u \in ResolveUtterances : Resolve(curConv, u)

SpecContext == Init /\ [][NextContext]_vars

\* ordinals over a listing some of whose members are deleted afterwards
NextOrdinals ==
    \/ ListDirectory(DirD)
    \/ \E p \in {FileA, FileB, NewFile} : DeleteFile(p)
    \/ WriteFile(NewFile)
    \/ TrackFromToolResult(curConv)
    \/ \E k \in 1..3 : Resolve(curConv, OrdinalUtterance(k))

SpecOrdinals == Init /\ [][NextOrdinals]_vars

----------------------------------------------------------------------------
(* Model downloads: POST /models/download, its background task, one step    *)
(* per stretch between two awaits, and POST /models/download/{id}/cancel    *)

DownloadStep(d) ==
    /\ downloads' = d
    /\ UNCHANGED <<files, dirs, store, nextId, convState, curConv, pending, toolsEnabled,
                   disabledTools, msgCount, sent, lastTurn, lastOp, wr, inflight, pm, routing,
                   registry, resolved, mv, conversation>>

\* the statuses for which download_model answers "already_downloading"
AlreadyDownloading == {"downloading", "detecting_capabilities", "registering"}

\* the status of the tracker registered for download_id ("none": no key)
StatusUnder(d, download_id) ==
    IF d.active[download_id] = 0 THEN None ELSE d.tracker[d.active[download_id]].status

\* download_model: the request is the (n+1)-th; it returns "already_downloading", or
\* registers a new tracker and adds _download_task to the background tasks
download_model(download_id) ==
    /\ downloads.n < MaxDownloads
    /\ \E k \in {downloads.n + 1} :
         IF StatusUnder(downloads, download_id) \in AlreadyDownloading
         THEN DownloadStep([downloads EXCEPT !.n = k])
         ELSE DownloadStep([downloads EXCEPT
                  !.n = k,
                  !.tracker[k] = [status |-> "starting", cancel |-> FALSE],
                  !.active[download_id] = k,
                  !.task[k] = [id |-> download_id, pc |-> "scheduled", tracker |-> 0,
                               saw |-> StatusUnder(downloads, download_id)]])

\* cancel_download for a tracker that is downloading or starting
cancel_download(download_id) ==
    /\ StatusUnder(downloads, download_id) \in {"downloading", "starting"}
    /\ DownloadStep([downloads EXCEPT
            !.tracker[downloads.active[download_id]] = [status |-> "cancelling", cancel |-> TRUE]])

\* _download_task up to `await downloader.download(...)`: the tracker is the one
\* registered under the id when the task begins to run
_download_task_begin(k) ==
    /\ downloads.task[k].pc = "scheduled"
    /\ \E t \in {downloads.active[downloads.task[k].id]} :
         DownloadStep([downloads EXCEPT !.task[k].pc = "downloading",
                                        !.task[k].tracker = t,
                                        !.tracker[t].status = "downloading"])

\* downloader.download has returned a path, or raised InterruptedError (only when the
\* cancel event is set) or another exception
_download_task_downloaded(k, outcome) ==
    /\ downloads.task[k].pc = "downloading"
    /\ \E t \in {downloads.task[k].tracker} :
         /\ outcome = "cancelled" => downloads.tracker[t].cancel
         /\ IF outcome = "path"
            THEN DownloadStep([downloads EXCEPT !.task[k].pc = "detecting",
                                                !.tracker[t].status = "detecting_capabilities"])
            ELSE DownloadStep([downloads EXCEPT !.task[k].pc = "done",
                                                !.tracker[t].status = outcome])

\* get_model_info has returned: registering, registry.register and "completed" follow
\* without an await; or it raised
_download_task_registered(k, ok) ==
    /\ downloads.task[k].pc = "detecting"
    /\ DownloadStep([downloads EXCEPT
            !.task[k].pc = "done",
            !.tracker[downloads.task[k].tracker].status = IF ok THEN "completed" ELSE "error"])

NextDownloads ==
    \/ \E download_id \in DownloadIds : download_model(download_id)
    \/ \E download_id \in DownloadIds : cancel_download(download_id)
    \/ \E k \in Requests : _download_task_begin(k)
    \/ \E k \in Requests, outcome \in {"path", "cancelled", "error"} : _download_task_downloaded(k, outcome)
    \/ \E k \in Requests, ok \in BOOLEAN : _download_task_registered(k, ok)

SpecDownloads == Init /\ [][NextDownloads]_vars

----------------------------------------------------------------------------
(* A move and its tracking, as one step: FileOperations.move_file, then     *)
(* track_from_tool_result on a success.  mv remembers the state before a    *)
(* successful move a -> b until the next move, and whether that next move   *)
(* was the successful return b -> a.                                        *)

MoveHistory(src, dst, ok) ==
    IF ~ok THEN NoMove
    ELSE IF mv.phase = "moved" /\ src = mv.b /\ dst = mv.a THEN [mv EXCEPT !.phase = "back"]
    ELSE [phase |-> "moved", a |-> src, b |-> dst, files |-> files, dirs |-> dirs,
          store |-> store, cs |-> convState]

MoveAndTrack(c, src, dst) ==
    /\ \E r \in {FileOperations_move_file(files, dirs, src, dst)} :
         /\ files' = r.files
         /\ dirs' = r.dirs
         /\ lastOp' = [op |-> "move", result |-> r.result, afterOk |-> TRUE, raised |-> FALSE]
         /\ IF r.result.status = "success"
            THEN \E S \in track_from_tool_result(SNow, c, r.result) : StoreBecomes(S)
            ELSE UNCHANGED <<store, nextId, convState>>
         /\ mv' = MoveHistory(src, dst, r.result.status = "success")
    /\ lastTurn' = NoTurn
    /\ UNCHANGED <<curConv, pending, toolsEnabled, disabledTools, msgCount, sent, wr, inflight,
                   pm, routing, registry, resolved, conversation, downloads>>

NewDirFile == <<"tmp", "d", "new", "a.txt">>

MovePaths == {FileA, FileB, NewFile, NewDirFile}

NextMoves ==
    \/ \E src \in MovePaths : \E dst \in MovePaths \ {src} : MoveAndTrack(curConv, src, dst)
    \/ mv.phase = "none" /\ \E p \in {FileA, FileB} : TrackEntity(curConv, p)

SpecMoves == Init /\ [][NextMoves]_vars

----------------------------------------------------------------------------
(* Pattern deletes, over directories that hold files and a subdirectory     *)

SubDir == <<"tmp", "d", "a+.txt">>

PatternDirs == {Tmp, DirD, SubDir, DesktopDone, <<"var", "tmp">>}

PatternLists == { <<"*">>, <<"*.txt">>, <<"a*", "*.txt">> }

LockSets == SUBSET {FileA, FileB}

NextPattern ==
    \/ \E d \in PatternDirs, pattern \in PatternLists, locked \in LockSets : DeleteByPatternLocked(d, pattern, locked)
    \/ \E p \in {FileA, FileB, NewFile} : WriteFile(p)
    \/ \E p \in {SubDir} : CreateDirectory(p)

SpecPattern == Init /\ [][NextPattern]_vars

----------------------------------------------------------------------------
(* Tracking, deletion and clear over the entity store of two conversations  *)

TrackingConvs == {InitialConv, "c1"}

NextIntegrity ==
    \/ ListDirectory(DirD)
    \/ \E p \in {FileA, FileB} : ReadFile(p)
    \/ \E p \in {FileA, FileB} : DeleteFile(p)
    \/ \E p \in {FileB} : WriteFile(p)
    \/ \E c \in TrackingConvs : TrackFromToolResult(c)
    \/ ClearChat

SpecIntegrity == Init /\ [][NextIntegrity]_vars

----------------------------------------------------------------------------
(* Directories created, listed and tracked in one conversation              *)

WorkDir == <<"tmp", "tmpw">>

NextFolders ==
    \/ \E p \in {SubDir, WorkDir} : CreateDirectory(p)
    \/ \E p \in {DirD, SubDir, WorkDir} : ListDirectory(p)
    \/ \E p \in {FileA, FileB} : ReadFile(p)
    \/ TrackFromToolResult(curConv)
    \/ ClearChat

SpecFolders == Init /\ [][NextFolders]_vars

----------------------------------------------------------------------------
(* References by name, with and without last-active pointers                *)

\* messages with a name and no explicit path, ordinal or pronoun
NameUtterances == { <<"open", "the", "b">>, <<"open", "b.txt">>, <<"open", "the", "report">> }

NextNames ==
    \/ ListDirectory(DirD)
    \/ \E p \in {FileA, FileB} : ReadFile(p)
    \/ TrackFromToolResult(curConv)
    \/ \E u \in NameUtterances : Resolve(curConv, u)
    \/ ClearChat

SpecNames == Init /\ [][NextNames]_vars

----------------------------------------------------------------------------
(* A confirmation prompt, another message, and then the reply               *)

StaleUtterances == { <<"delete", "it">>, <<"hi">>, <<"yes">>, <<"no">> }

\* a message of the conversation the process is in, sent without conversation_id
ChatOn(u) == send_message_within(None, u, FALSE, MaxStaleTurns)

NextStale ==
    \/ \E u \in StaleUtterances : ChatOn(u)
    \/ \E p \in {FileA, FileB} : TrackEntity(InitialConv, p)

SpecStale == Init /\ [][NextStale]_vars

----------------------------------------------------------------------------
(* Properties                                                               *)

TurnTaken == lastTurn.conv # None

DestructiveTools == {"delete_file", "move_file"}

\* the last turn planned a delete or move whose target was neither an explicit path
\* of the message nor an ordinal pick from the current selection
UnconfirmedDestructivePlan ==
    /\ TurnTaken
    /\ lastTurn.plan.status = "ready"
    /\ lastTurn.plan.tool_name \in DestructiveTools
    /\ ~lastTurn.plan.explicit_path
    /\ ~lastTurn.plan.selection_resolved

StoredForConfirmation ==
    /\ lastTurn.exec.tool = None
    /\ lastTurn.kind = "confirm"
    /\ pending = PendingAction(lastTurn.plan.tool_name, lastTurn.plan.params,
                               lastTurn.plan.resolved_entity)

\* a destructive tool runs only for an explicit path, an ordinal pick, or the
\* confirmation (or ordinal answer) of a stored PendingAction
ExecutedOnlyWhenAllowed ==
    (TurnTaken /\ lastTurn.exec.tool \in DestructiveTools) =>
        \/ lastTurn.seen # NoPending /\ lastTurn.handled \in {"confirm", "ordinal"}
        \/ lastTurn.plan.status = "ready"
           /\ (lastTurn.plan.explicit_path \/ lastTurn.plan.selection_resolved)

\* C1 as stated: every turn whose plan is a delete or move with a target that is
\* neither explicit nor picked by ordinal runs no tool, stores a PendingAction and
\* replies with a confirmation prompt; the tool runs only on a later confirming turn.
C1_AlwaysStored ==
    /\ UnconfirmedDestructivePlan => StoredForConfirmation
    /\ ExecutedOnlyWhenAllowed

\* C1 amended: such a turn runs no tool; when the planned tool is available it stores
\* the PendingAction and replies with the confirmation prompt, and when the tool is
\* disabled it replies that the action is unavailable and stores nothing; a
\* destructive tool runs only for an explicit path, an ordinal pick or a confirmation.
C1_ConfirmationWhenAvailable ==
    /\ UnconfirmedDestructivePlan =>
          /\ lastTurn.exec.tool = None
          /\ IF _tool_available(lastTurn.plan.tool_name, toolsEnabled, disabledTools)
             THEN StoredForConfirmation
             ELSE /\ lastTurn.kind = "unavailable"
                  /\ ~lastTurn.setCalled
                  /\ pending = lastTurn.seen
    /\ ExecutedOnlyWhenAllowed

C1_Witness ==
    /\ UnconfirmedDestructivePlan
    /\ lastTurn.utt = <<"delete", "it">>
    /\ lastTurn.plan.resolved_entity.path = FileA
    /\ StoredForConfirmation
    /\ FileA \in files

\* the outcome a turn's tool call reports: none, raised, or the status of its result
TurnResultStatus ==
    IF lastTurn.exec.tool = None THEN "none"
    ELSE IF lastTurn.exec.raised THEN "raised"
    ELSE StatusOf(lastTurn.exec.success)

OutsideAllowList == {<<"delete", "/etc/hosts">>, <<"delete", "/var/tmp/a+.txt">>}

\* C2: a turn asking to delete an explicit path outside the allow-list never changes
\* the filesystem: its tool result has status error, and it sets no PendingAction.
C2_OutsideAllowListRefused ==
    (TurnTaken /\ lastTurn.utt \in OutsideAllowList) =>
        /\ ~lastTurn.fsChanged
        /\ TurnResultStatus = "error"
        /\ ~lastTurn.setCalled

\* C3: after a successful move or rename run by a turn, every entity that stood for
\* the source path keeps its id and has the destination as path and name, and no
\* new id is issued.
C3_EntityFollowsMove ==
    (TurnTaken /\ lastTurn.exec.tool = "move_file" /\ lastTurn.exec.success) =>
        \A id \in lastTurn.sourceIds :
            /\ EntityStore_get(SNow, id).path = Resolved(lastTurn.exec.params.destination)
            /\ EntityStore_get(SNow, id).name = Basename(Resolved(lastTurn.exec.params.destination))

\* C4: setting a PendingAction while one is SET is rejected: the existing one is
\* left unchanged and the turn does not answer with the prompt of a new one.
C4_NoSilentReplace ==
    (TurnTaken /\ lastTurn.setCalled /\ lastTurn.pendingAtSet # NoPending) =>
        /\ pending = lastTurn.pendingAtSet
        /\ lastTurn.kind \notin {"confirm", "disambiguation"}

IsReply(u) == is_confirmation(u) \/ is_cancellation(u) \/ _parse_ordinal_selection(u) # NoOrdinal

\* C5: when a PendingAction is SET and the next message of the conversation is a
\* confirmation, a cancellation or an ordinal reply, the slot is empty when the
\* turn ends.
C5_ReplyConsumesPending ==
    (TurnTaken /\ lastTurn.seen # NoPending /\ IsReply(lastTurn.utt)) => pending = NoPending

\* C6: a PendingAction that is SET is still SET when the next message carrying the
\* same conversation_id arrives, so that a "yes" in that message executes it.
C6_PendingSurvivesNextMessage ==
    (TurnTaken /\ lastTurn.arrived # NoPending /\ lastTurn.cid = lastTurn.convBefore) =>
        /\ lastTurn.seen = lastTurn.arrived
        /\ is_confirmation(lastTurn.utt) => lastTurn.exec.tool = lastTurn.arrived.tool_name

\* C7: every mutating tool execution that reports success carries a verification
\* that passed.
C7_SuccessIsVerified ==
    (TurnTaken /\ lastTurn.exec.tool \in DestructiveTools /\ lastTurn.exec.success) =>
        lastTurn.exec.verification = "passed"

NotAClaim(reply) == ~contains_hallucination(reply) \/ reply = HonestResponse

\* C8 as stated: every reply of a turn in which no tool ran, through chat and through
\* chat_stream, does not match contains_hallucination or is the fixed prompt.
C8_EveryReplyGuarded ==
    (TurnTaken /\ lastTurn.exec.tool = None) => NotAClaim(lastTurn.reply)

\* C8 amended: every reply written by the model on a turn in which no tool ran,
\* through chat and through chat_stream, does not match contains_hallucination or is
\* the fixed prompt; the other replies are the orchestrator's own prompts.
C8_ModelReplyGuarded ==
    (TurnTaken /\ lastTurn.exec.tool = None) =>
        \/ lastTurn.kind \in {"model", "blocked"} /\ NotAClaim(lastTurn.reply)
        \/ lastTurn.kind \in {"confirm", "disambiguation", "clarification", "unavailable", "cancelled"}

C8_Witness ==
    /\ TurnTaken
    /\ lastTurn.stream
    /\ lastTurn.kind = "blocked"
    /\ lastTurn.reply = HonestResponse

C10_ResolutionIsPerConversation ==
    /\ \A c \in AllConvs : \A u \in Utterances :
          \A r \in resolve_for_action(SNow, c, u, "delete_file") \cup resolve(SNow, c, u, None, FALSE) :
              /\ r.entity.id # 0 => r.entity.conv = c
              /\ \A k \in 1..Len(r.alternatives) : r.alternatives[k].conv = c
    /\ (TurnTaken /\ lastTurn.plan.resolved_entity.id # 0) =>
          lastTurn.plan.resolved_entity.conv = lastTurn.conv

C10_Witness ==
    /\ \E e \in store : e.conv = "c1" /\ e.path = FileA
    /\ \E e \in store : e.conv = "c2" /\ e.path = FileB
    /\ lastTurn.conv = "c2"
    /\ lastTurn.utt = <<"delete", "it">>
    /\ lastTurn.plan.params.path = FileB

\* C11: clearing a conversation removes all its entities, its state pointers and
\* turn index and the pending action, and leaves the entities and the state row
\* (pointers, turn_index) of every other conversation as they were.
C11_ClearIsLocal ==
    [][ClearConversation =>
          /\ \A e \in store' : e.conv # curConv
          /\ convState'[curConv] = NoRow
          /\ pending' = NoPending
          /\ \A c \in AllConvs \ {curConv} :
                /\ {e \in store' : e.conv = c} = {e \in store : e.conv = c}
                /\ convState'[c] = convState[c]]_vars

\* a clear that removed entities of the current conversation and kept another's
C11_Witness ==
    /\ lastOp.op = "clear"
    /\ nextId - 1 > Cardinality(store)
    /\ \A e \in store : e.conv # curConv
    /\ \E e \in store : e.conv # curConv
    /\ \E c \in AllConvs \ {curConv} : convState[c].laf # 0

\* paths the primitives are called with, and whether one resolves outside home and /tmp
OpPaths == {FileA, FileB, EtcHosts, DirD, VarTmp, VarTmpFile, VarTmpB, VarTmpD, DesktopDone}

CanonicalisesOutside(p) == \A root \in ALLOWED_ROOTS : ~IsPrefix(root, Resolved(p))

GlobPatterns == {"*", "*.txt", "a*"}

\* a primitive called with p as its path, or as the source or the destination
OperationOn(p) ==
    \/ ReadFile(p) \/ ListDirectory(p) \/ WriteFile(p) \/ DeleteFile(p) \/ CreateDirectory(p)
    \/ \E q \in OpPaths : MoveFile(p, q) \/ MoveFile(q, p) \/ CopyFile(p, q) \/ CopyFile(q, p)
    \/ \E pat \in GlobPatterns : DeleteByPattern(p, <<pat>>) \/ SearchFiles(p, pat)

\* C12: every filesystem operation (read, list, write, move, copy, delete,
\* delete_by_pattern, create_directory, search) called with a path that resolves outside
\* the allow-list (home, /tmp) returns status error and changes nothing on the disk.
C12_OutsideAllowListNoEffect ==
    [][\A p \in OpPaths :
          (CanonicalisesOutside(p) /\ OperationOn(p)) =>
              /\ lastOp'.result.status = "error"
              /\ files' = files
              /\ dirs' = dirs]_vars

\* a move out of /var/tmp was refused while its source exists and its destination is free
C12_Witness ==
    /\ lastOp.op = "move"
    /\ lastOp.result.status = "error"
    /\ lastOp.result.before_paths = <<VarTmpFile, FileB>>
    /\ VarTmpFile \in files
    /\ FileB \notin files

\* the filesystem root, the user's home directory and a system directory
ProtectedTargets == {Root, Home, System}

\* a delete or an overwrite aimed at p, by a verified primitive or by the registered tool
DeleteOrOverwrite(p) ==
    DeleteFile(p) \/ WriteFile(p) \/ ExecuteTool("delete_file", PathParams(p))

ToolNames == FILESYSTEM_TOOLS \cup {"no_such_tool"}

\* C14: ToolExecutor.execute, for a registered or an unknown tool name, returns a
\* ToolResult whose status is success or error and never raises to its caller.
C14_ExecuteReturnsResult ==
    lastOp.op \in ToolNames =>
        /\ ~lastOp.raised
        /\ lastOp.result.status \in {"success", "error"}

\* the turn met a domain error: its tool found no such path or refused the target, or
\* the planned tool is switched off
DomainError ==
    \/ lastTurn.exec.tool # None /\ ~lastTurn.exec.success
    \/ lastTurn.kind = "unavailable"

\* C15: a turn that meets a domain error ends with a reply text and does not raise to
\* the HTTP layer.
C15_DomainErrorBecomesReply ==
    (TurnTaken /\ DomainError) =>
        /\ lastTurn.kind # "raised"
        /\ lastTurn.reply # <<>>

\* C16: at every point of a write_file call, and after one that failed or was
\* interrupted, the file at the target path is absent or whole as before the call, or
\* holds the complete new content; a partial write is never visible.
C16_VisibleFileIsWhole ==
    wr.phase # "idle" => wr.content \in {wr.before, "new"}

\* the turn answers a question that offered k >= 2 alternatives with a number i <= k
OrdinalAnswer ==
    /\ TurnTaken
    /\ Len(lastTurn.offered) >= 2
    /\ _parse_ordinal_selection(lastTurn.utt) \in 0..(Len(lastTurn.offered) - 1)

\* C17: an ordinal reply i to a disambiguation prompt runs the pending tool on the
\* i-th alternative the prompt offered, and on nothing else.
C17_OrdinalPicksOffered ==
    OrdinalAnswer =>
        /\ lastTurn.exec.tool = lastTurn.arrived.tool_name
        /\ lastTurn.exec.params.path
               = lastTurn.offered[_parse_ordinal_selection(lastTurn.utt) + 1].path

DeleteSecond == <<"delete", "the", "second", "one">>

\* the turn planned a delete of the item picked by ordinal from the listing's selection
OrdinalDelete ==
    /\ TurnTaken
    /\ lastTurn.utt = DeleteSecond
    /\ lastTurn.plan.selection_resolved
    /\ lastTurn.plan.tool_name = "delete_file"

ToolToRun ==
    IF lastTurn.handled \in {"confirm", "ordinal"} THEN lastTurn.seen.tool_name
    ELSE IF lastTurn.plan.status = "ready" THEN lastTurn.plan.tool_name
    ELSE None

\* C19: no turn executes a tool that is disabled in the registry; a turn that was about
\* to run one, by a direct plan, a confirmation or an ordinal rebind, changes nothing
\* and replies that the action is unavailable, naming the tool.
C19_DisabledToolNeverRuns ==
    TurnTaken =>
        /\ lastTurn.exec.tool \notin disabledTools
        /\ (toolsEnabled /\ ToolToRun \in disabledTools) =>
               /\ lastTurn.kind = "unavailable"
               /\ ~lastTurn.fsChanged
               /\ lastTurn.reply = format_tool_unavailable(ToolToRun)
               /\ Contains(lastTurn.reply, ToolToRun)

\* "yes" to a stored delete after delete_file was switched off
C19_Witness ==
    /\ TurnTaken
    /\ lastTurn.handled = "confirm"
    /\ lastTurn.seen.tool_name = "delete_file"
    /\ "delete_file" \in disabledTools
    /\ lastTurn.kind = "unavailable"
    /\ lastTurn.seen.params.path \in files

\* C20: a turn runs at most one tool: whatever the turn did to the disk, through the
\* pending-action handler, the planner or the fallback resolution, is the effect of the
\* one ToolExecutor.execute call it records, and a turn that records none changes nothing.
C20_OneExecutionPerTurn ==
    [][sent' = sent + 1 =>
          \E x \in {IF lastTurn'.exec.tool = None THEN [files |-> files, dirs |-> dirs]
                     ELSE ToolExecutor_execute(files, dirs, lastTurn'.exec.tool,
                                               lastTurn'.exec.params)} :
              /\ files' = x.files
              /\ dirs' = x.dirs]_vars

\* a confirmed delete ran its one tool call and removed the tracked file
C20_Witness ==
    /\ TurnTaken
    /\ lastTurn.handled = "confirm"
    /\ lastTurn.exec.tool = "delete_file"
    /\ lastTurn.fsChanged
    /\ lastTurn.exec.params.path \notin files
    /\ Dirname(lastTurn.exec.params.path) \in dirs

\* C21: turns of one conversation id are serialized: at no time are two turns of the
\* same conversation id in flight (turns of different ids may be in flight together)
C21_OneTurnInFlightPerConversation ==
    \A t1 \in inflight, t2 \in inflight : t1.conv = t2.conv => t1 = t2

\* two turns of different conversation ids are in flight together
C21_ParallelConversations ==
    \E t1 \in inflight, t2 \in inflight : t1.conv # t2.conv

\* a call of start or stop that has begun to change the registry and has not finished
Mutating(k) == pm.call[k].pc \in {"locked", "loading", "locked_ok", "locked_err"}

\* C22: starts and stops are mutually exclusive: a start or stop holds _lock for the
\* whole of its mutation, so no two calls are inside their mutations at the same time
C22_StartStopExclusive ==
    \A k1 \in Callers, k2 \in Callers :
        Mutating(k1) /\ Mutating(k2) => k1 = k2 /\ pm.lock = k1

\* the locked sections themselves exclude each other
C22_SectionsExclusive ==
    \A k1 \in Callers, k2 \in Callers :
        /\ pm.call[k1].pc \in {"locked", "locked_ok", "locked_err"}
        /\ pm.call[k2].pc \in {"locked", "locked_ok", "locked_err"}
        => k1 = k2 /\ pm.lock = k1

\* a start has returned an instance whose status is RUNNING and which is not registered
C22_RunningButUnregistered ==
    \E k \in Callers :
        /\ pm.call[k].op = "start" /\ pm.call[k].pc = "done" /\ pm.call[k].ret = "instance"
        /\ pm.inst[k].status = "running"
        /\ pm.models[pm.call[k].model] # k

\* the ids of the workers offered to the router model
ValidIds(available) == {available[i].id : i \in 1..Len(available)}

\* the answer cannot be parsed into an object
Unparseable(response) == json_loads(response) \in {NotJson, JsonList}

\* the answer is an object whose model_id is none of the offered ids
NamesUnknownModel(response, available) ==
    /\ ~Unparseable(response)
    /\ json_loads(response).model_id \notin ValidIds(available)

HighestGeneral(available) ==
    {available[i].id : i \in {j \in 1..Len(available) :
        \A k \in 1..Len(available) : available[k].general <= available[j].general}}

\* C23: when the router's answer is unparseable or names a model id that is not among
\* the available workers, the decision is the available worker with the highest
\* general score
C23_FallbackIsBestGeneral ==
    routing.available # <<>>
    /\ (Unparseable(routing.response) \/ NamesUnknownModel(routing.response, routing.available))
    => routing.decision.model_id \in HighestGeneral(routing.available)

\* the part of it that the code keeps: an unparseable answer gives the best general worker
C23_UnparseableIsBestGeneral ==
    routing.available # <<>> /\ Unparseable(routing.response)
    => routing.decision.model_id \in HighestGeneral(routing.available)

\* C24: the registry always contains the designated router entry, whatever was loaded,
\* registered, updated or deleted, a delete of the router id included
C24_RouterAlwaysRegistered ==
    \E m \in registry.models : m.id = ROUTER_MODEL.id /\ m.role = "router"

\* a delete of the router id has been refused while workers are registered beside it
C24_Witness ==
    /\ registry.last = [op |-> "delete", arg |-> ROUTER_MODEL.id, ret |-> "False"]
    /\ Cardinality(registry.models) > 1
    /\ C24_RouterAlwaysRegistered

\* C25: an ordinal that is out of range for the current selection of N items resolves
\* to LOW confidence with no entity, and all N items are offered as alternatives
C25_OrdinalOutOfRange ==
    \A k \in 1..Len(OrdinalNames) :
        /\ resolved.utt = OrdinalUtterance(k)
        /\ Len(resolved.items) >= 1
        /\ k > Len(resolved.items)
        => /\ resolved.result.confidence = "low"
           /\ resolved.result.entity = NoEntity
           /\ resolved.result.alternatives = resolved.items

\* "the third one" was resolved against a selection of two items
C25_Witness ==
    /\ resolved.utt = OrdinalUtterance(3)
    /\ Len(resolved.items) = 2
    /\ resolved.result.confidence = "low"
    /\ Len(resolved.result.alternatives) = 2

\* a pronoun was resolved with no last active file or folder and a current selection
PronounFallsBackToSelection ==
    /\ resolved.utt = <<"delete", "it">>
    /\ resolved.laf = 0 /\ resolved.lafo = 0
    /\ Len(resolved.items) >= 1

\* C26: when pronoun resolution falls back to the current selection, the result is HIGH
\* for a selection of exactly one item and AMBIGUOUS for one of several items
C26_PronounOverSelection ==
    PronounFallsBackToSelection
    => resolved.pronoun.confidence = IF Len(resolved.items) = 1 THEN "high" ELSE "ambiguous"

\* what the code does in that case: MEDIUM with the only item, or AMBIGUOUS with no
\* entity, which resolve then drops for "no match"
C26_MediumOrDropped ==
    PronounFallsBackToSelection
    => IF Len(resolved.items) = 1
       THEN /\ resolved.pronoun.confidence = "medium"
            /\ resolved.pronoun.entity = resolved.items[1]
            /\ resolved.result = resolved.pronoun
       ELSE /\ resolved.pronoun.confidence = "ambiguous"
            /\ resolved.pronoun.alternatives = resolved.items
            /\ resolved.result.confidence = "none"

\* both cases of the fallback occur
C26_FallbackSeen ==
    PronounFallsBackToSelection /\ Len(resolved.items) = 2

\* C27: after move_file(a, b) and move_file(b, a), both successful and both tracked, the
\* entity store (the same entities with the same ids and paths) and the disk are as they
\* were before the first move
C27_MoveRoundTrip ==
    mv.phase = "back"
    => /\ files = mv.files /\ dirs = mv.dirs
       /\ store = mv.store /\ convState = mv.cs

\* the disk alone comes back when b did not exist and its directory did
C27_DiskRestored ==
    /\ mv.phase = "back"
    /\ ~Exists(mv.files, mv.dirs, mv.b)
    /\ Dirname(mv.b) \in mv.dirs
    => files = mv.files /\ dirs = mv.dirs

\* the paths, or the regular files, of directory d whose name matches one of the globs
MatchingPaths(fs, ds, d, pattern) ==
    {q \in fs \cup ds : Len(q) = Len(d) + 1 /\ Dirname(q) = d
                        /\ \E k \in 1..Len(pattern) : fnmatch(Basename(q), pattern[k])}

MatchingFiles(fs, ds, d, pattern) == MatchingPaths(fs, ds, d, pattern) \cap fs

\* a pattern delete in a directory that exists inside the allow-list
PatternDelete(d, pattern) ==
    /\ _ensure_allowed(d) /\ d \in dirs
    /\ \E locked \in LockSets : DeleteByPatternLocked(d, pattern, locked)

\* C28: delete_by_pattern returns status success if and only if every path matching the
\* pattern in the directory was deleted and no match remains on disk when it returns
C28_SuccessIffNoMatchRemains ==
    [][\A d \in PatternDirs, pattern \in PatternLists :
          PatternDelete(d, pattern) =>
              (lastOp'.result.status = "success"
               <=> MatchingPaths(files', dirs', d, pattern) = {})]_vars

\* C28 as the code has it: in an existing directory inside the allow-list the status is
\* success if and only if every regular file matching the pattern was unlinked and no
\* matching regular file remains; matching directories are skipped and stay
C28_SuccessIffNoFileRemains ==
    [][\A d \in PatternDirs, pattern \in PatternLists :
          PatternDelete(d, pattern) =>
              /\ lastOp'.result.status = "success"
                 <=> MatchingFiles(files', dirs', d, pattern) = {}
              /\ lastOp'.result.status = "success"
                 => Range(lastOp'.result.before_paths) = MatchingFiles(files, dirs, d, pattern)
              /\ MatchingPaths(files', dirs', d, pattern) \cap dirs'
                    = MatchingPaths(files, dirs, d, pattern) \cap dirs]_vars

\* a pattern delete has failed on a file it could not unlink, after removing another
C28_Witness ==
    /\ lastOp.op = "delete_by_pattern"
    /\ lastOp.result.status = "error"
    /\ Len(lastOp.result.before_paths) = 1
    /\ Len(lastOp.result.output.items) >= 1
    /\ FileA \in files /\ FileB \notin files

\* a pattern delete has succeeded and left the matching subdirectory in place
C28_DirectoryStays ==
    /\ lastOp.op = "delete_by_pattern"
    /\ lastOp.result.status = "success"
    /\ lastOp.result.output.path = DirD
    /\ Len(lastOp.result.before_paths) >= 1
    /\ SubDir \in dirs

\* id is null or names a stored entity of conversation c
RefersWithin(id, c) == id = 0 \/ \E e \in store : e.id = id /\ e.conv = c

\* C29: referential integrity of conversation state: after any sequence of tracking,
\* deletion and clear operations every non-null last_active_file_id,
\* last_active_folder_id and current_selection_id, and every id in a selection's
\* selection_ids, refers to a stored entity of the same conversation
C29_ReferentialIntegrity ==
    /\ \A c \in DOMAIN convState :
          /\ RefersWithin(convState[c].laf, c)
          /\ RefersWithin(convState[c].lafo, c)
          /\ RefersWithin(convState[c].sel, c)
    /\ \A e \in store :
          e.kind = "selection" => \A k \in 1..Len(e.sel) : RefersWithin(e.sel[k], e.conv)

\* the weaker reading: what the getters hand out is always a stored entity of the
\* conversation, whatever the pointers hold
C29_GettersStayWithin ==
    \A c \in DOMAIN convState :
        /\ get_last_active_file(SNow, c).conv \in {c, "none"}
        /\ get_last_active_folder(SNow, c).conv \in {c, "none"}
        /\ get_current_selection(SNow, c).conv \in {c, "none"}
        /\ \A k \in 1..Len(ConversationContext_get_selection_items(SNow, c)) :
              ConversationContext_get_selection_items(SNow, c)[k].conv = c

\* the tracked deletion of a file has left the last-active-file pointer on a removed row
C29_DanglingLastActive ==
    \E c \in DOMAIN convState : convState[c].laf # 0 /\ ~RefersWithin(convState[c].laf, c)

\* the last primitive was a successful list and conversation c tracks its result
TracksListing(c) ==
    /\ lastOp.op = "list" /\ lastOp.result.status = "success"
    /\ TrackFromToolResult(c)

\* the current selection of c is a selection whose members are the paths, in order
SelectionIs(S, c, paths) ==
    /\ get_current_selection(S, c).kind = "selection"
    /\ Len(get_current_selection(S, c).sel) = Len(paths)
    /\ \A k \in 1..Len(paths) :
          EntityStore_get(S, get_current_selection(S, c).sel[k]).path = paths[k]

\* C30: after a successful list the current selection is a SELECTION whose members are
\* exactly the listed children in listed order, the listed directory is the last
\* active folder, and the last-active-file pointer is unchanged by the listing
C30_ListingBecomesSelection ==
    [][\A c \in TrackingConvs :
          TracksListing(c) =>
              /\ SelectionIs([store |-> store', nextId |-> nextId', cs |-> convState'], c,
                             MatchPaths(lastOp.result.output))
              /\ EntityStore_get([store |-> store', nextId |-> nextId', cs |-> convState'],
                                 convState'[c].lafo).path = lastOp.result.output.path
              /\ convState'[c].laf = convState[c].laf]_vars

\* the same for a listing with at least one child
C30_NonEmptyListingBecomesSelection ==
    [][\A c \in TrackingConvs :
          TracksListing(c) /\ Len(lastOp.result.output.items) > 0 =>
              /\ SelectionIs([store |-> store', nextId |-> nextId', cs |-> convState'], c,
                             MatchPaths(lastOp.result.output))
              /\ convState'[c].sel = nextId' - 1
              /\ EntityStore_get([store |-> store', nextId |-> nextId', cs |-> convState'],
                                 convState'[c].lafo).path = lastOp.result.output.path
              /\ convState'[c].laf = convState[c].laf]_vars

\* the listing of an empty directory leaves the selection of an earlier listing current
C30_EmptyListingKeepsSelection ==
    [][\A c \in TrackingConvs :
          TracksListing(c) /\ Len(lastOp.result.output.items) = 0 =>
              convState'[c].sel = convState[c].sel]_vars

\* the last primitive was a successful create_directory and conversation c tracks its result
TracksCreatedDirectory(c) ==
    /\ lastOp.op = "create" /\ lastOp.result.status = "success"
    /\ TrackFromToolResult(c)

\* C31: after a successful create_directory, tracking its result records the created
\* path as a FOLDER entity and makes it the last active folder; it is not recorded as a
\* FILE and does not become the last active file
C31_CreatedDirectoryIsFolder ==
    [][TracksCreatedDirectory(curConv) =>
          /\ \A e \in store' : e.conv = curConv /\ e.path = lastOp.result.output.path
                                  => e.kind = "folder"
          /\ EntityStore_get([store |-> store', nextId |-> nextId', cs |-> convState'],
                             convState'[curConv].lafo).path = lastOp.result.output.path
          /\ convState'[curConv].laf = convState[curConv].laf]_vars

\* what the code does instead: a newly created directory is stored as a FILE and becomes
\* the last active file, the last active folder stays
C31_CreatedDirectoryIsFile ==
    [][TracksCreatedDirectory(curConv) /\ get_by_path(SNow, curConv, lastOp.result.output.path) = {} =>
          /\ \A e \in store' : e.conv = curConv /\ e.path = lastOp.result.output.path
                                  => e.kind = "file" /\ convState'[curConv].laf = e.id
          /\ convState'[curConv].lafo = convState[curConv].lafo]_vars

\* a directory on disk is the last active file of the conversation
C31_DirectoryIsLastActiveFile ==
    /\ get_last_active_file(SNow, curConv).path \in dirs
    /\ get_last_active_file(SNow, curConv).kind = "file"

\* the tracked entities of conversation c that a name of the message matches
NamedEntities(S, c, u) ==
    {e \in get_all(S, c) : \E n \in _extract_names(u) : _name_match_score(n, e) > 0}

\* a message with no explicit path, no ordinal and no pronoun
PlainNameMessage(u) ==
    /\ _extract_explicit_path(u) = None
    /\ _resolve_ordinal(SNow, curConv, u) = {}
    /\ ~IsFileRef(u) /\ ~IsFolderRef(u) /\ ~MatchesRecent(u)

\* C32: resolution is an ordered pipeline in which a stage decides only if it fires: a
\* message with no explicit path, no ordinal and no pronoun that contains a name of a
\* tracked entity is resolved by name match to that entity, whatever last-active
\* pointers are set
C32_NameMatchDecides ==
    [][\A u \in NameUtterances :
          Resolve(curConv, u) /\ PlainNameMessage(u) /\ NamedEntities(SNow, curConv, u) # {} =>
              /\ resolved'.result.via = "name"
              /\ resolved'.result.entity \in NamedEntities(SNow, curConv, u)]_vars

\* what the code does: with a last active file or folder the pronoun stage answers, and
\* the name stage only when both pointers are unset
C32_LastActiveDecides ==
    [][\A u \in NameUtterances :
          Resolve(curConv, u) /\ PlainNameMessage(u) /\ NamedEntities(SNow, curConv, u) # {} =>
              IF get_last_active_file(SNow, curConv).id # 0
              THEN resolved'.result.via = "pronoun"
                   /\ resolved'.result.entity = get_last_active_file(SNow, curConv)
              ELSE IF get_last_active_folder(SNow, curConv).id # 0
              THEN resolved'.result.via = "pronoun"
                   /\ resolved'.result.entity = get_last_active_folder(SNow, curConv)
              ELSE resolved'.result.via \in {"name", "pronoun"}]_vars

\* "open the b" was answered with the last active file a.txt although b.txt is tracked
C32_NameShadowed ==
    /\ resolved.utt = <<"open", "the", "b">>
    /\ resolved.result.via = "pronoun"
    /\ resolved.result.entity.path = FileA
    /\ \E e \in store : e.conv = resolved.conv /\ e.path = FileB

\* the last turn found a PendingAction, was no reply to its prompt, and left it in place
\* without asking anew
PromptWentUnanswered ==
    /\ TurnTaken /\ lastTurn.conv = curConv
    /\ lastTurn.seen # NoPending
    /\ ~IsReply(lastTurn.utt)
    /\ ~lastTurn.setCalled

\* C33: a confirmation word executes a PendingAction only when it answers that action's
\* own prompt: if a PendingAction is SET and the user then sends a message that is
\* neither a confirmation, a cancellation nor an ordinal, a "yes" on a later turn does
\* not execute that stale PendingAction
C33_StaleConfirmationIgnored ==
    [][PromptWentUnanswered /\ ChatOn(<<"yes">>) => lastTurn'.exec.tool = None]_vars

\* what the code does: the PendingAction outlives the other message, and the later "yes"
\* runs its tool with its parameters
C33_StaleConfirmationRuns ==
    [][PromptWentUnanswered /\ ChatOn(<<"yes">>) =>
          /\ pending = lastTurn.seen
          /\ lastTurn'.exec.tool = pending.tool_name
          /\ lastTurn'.exec.params = pending.params
          /\ pending' = NoPending]_vars

\* "delete it", "hi", "yes": the third message has run delete_file on the file of the first
C33_StaleDeleteRan ==
    /\ sent = 3
    /\ lastTurn.utt = <<"yes">>
    /\ lastTurn.exec.tool = "delete_file"
    /\ lastTurn.seen # NoPending

\* the target a tool call is bound to: source for a move, path for the other tools
TargetOf(exec) == IF exec.tool = "move_file" THEN exec.params.source ELSE exec.params.path

\* C34: no tool is ever executed with an unbound (empty) target path: a confirmation
\* word in reply to a disambiguation prompt, without the choice of an ordinal, executes
\* nothing
C34_NoToolOnEmptyPath ==
    (TurnTaken /\ lastTurn.exec.tool # None) => TargetOf(lastTurn.exec) # EmptyPath

\* the reply to a disambiguation prompt was a confirmation word and nothing ran
C34_ConfirmationRunsNothing ==
    (TurnTaken /\ lastTurn.seen # NoPending /\ TargetOf([tool |-> lastTurn.seen.tool_name,
                                                         params |-> lastTurn.seen.params]) = EmptyPath
        /\ is_confirmation(lastTurn.utt))
    => lastTurn.exec.tool = None

\* "yes" after "which file did you mean?" ran delete_file on the empty path, which is the
\* working directory of the process, and the directory is gone
C34_WorkingDirectoryDeleted ==
    /\ TurnTaken /\ lastTurn.utt = <<"yes">>
    /\ lastTurn.exec.tool = "delete_file"
    /\ lastTurn.exec.params.path = EmptyPath
    /\ lastTurn.fsChanged
    /\ Cwd \notin dirs

\* what a step of a turn of conversation c may write: entities of c, the row of c, and
\* a PendingAction only in the context of c
WritesOnly(c) ==
    /\ \A e \in store' \ store : e.conv = c
    /\ \A x \in DOMAIN convState : x # c => convState'[x] = convState[x]
    /\ (pending' # NoPending /\ pending' # pending) => curConv' = c

ModelTurn == TurnTaken /\ lastTurn.kind \in {"model", "blocked"}

\* C36: the message history sent to the model on a turn of conversation C contains only
\* messages of C, in turn order; messages of other conversations handled by the same
\* process never appear in it
C36_HistoryOfOwnConversation ==
    ModelTurn =>
        /\ \A k \in DOMAIN lastTurn.messages : lastTurn.messages[k].conv = lastTurn.conv
        /\ \A j, k \in DOMAIN lastTurn.messages :
              j < k => lastTurn.messages[j].req <= lastTurn.messages[k].req

\* what the code does: the model gets the tail of the one list of the process, in the
\* order the messages were appended, whatever conversation they belong to
C36_HistoryOfTheProcess ==
    ModelTurn =>
        /\ Len(lastTurn.messages) >= 1
        /\ lastTurn.messages[Len(lastTurn.messages)].role = "user"
        /\ \A k \in DOMAIN lastTurn.messages : lastTurn.messages[k].conv \in Convs \cup {InitialConv}
        /\ \A j, k \in DOMAIN lastTurn.messages :
              j < k => lastTurn.messages[j].req <= lastTurn.messages[k].req

\* a turn of one conversation handed the model a message of another conversation
C36_ForeignMessageSent ==
    /\ ModelTurn
    /\ \E k \in DOMAIN lastTurn.messages : lastTurn.messages[k].conv # lastTurn.conv

\* the calls of start for model m, and the instances that hold a loaded model
StartsOf(m) == {k \in Callers : pm.call[k].op = "start" /\ pm.call[k].model = m}

LoadedInstances == {k \in Callers : pm.inst[k].llm}

\* every call made so far is a start of m, there are at least two, and all have
\* returned an instance
StartsReturned(m) ==
    /\ Cardinality(StartsOf(m)) >= 2
    /\ \A k \in Callers :
          \/ pm.call[k].pc = "idle"
          \/ /\ k \in StartsOf(m)
             /\ pm.call[k].pc = "done"
             /\ pm.call[k].ret \in {"instance", "existing"}

\* C37: concurrent start requests for the same model id load the model at most once:
\* after all of them return, exactly one instance of that model exists, it is the one
\* registered in the process manager, it is RUNNING, and every caller received that
\* instance
C37_ConcurrentStartsLoadOnce ==
    \A m \in ModelIds :
        StartsReturned(m) =>
            /\ Cardinality({k \in StartsOf(m) : pm.call[k].ret = "instance"}) <= 1
            /\ Cardinality(LoadedInstances) = 1
            /\ pm.models[m] \in LoadedInstances
            /\ pm.inst[pm.models[m]].status = "running"
            /\ \A k \in StartsOf(m) : pm.call[k].got = pm.models[m]

\* what the code does: the instance registered in the end is RUNNING and loaded, and
\* every start that found a RUNNING instance returned the registered one
C37_LastStartIsRegistered ==
    \A m \in ModelIds :
        StartsReturned(m) =>
            /\ pm.models[m] \in LoadedInstances
            /\ pm.inst[pm.models[m]].status = "running"
            /\ \A k \in StartsOf(m) : pm.call[k].ret = "existing" => pm.call[k].got = pm.models[m]

\* two starts of one model have returned: the model was loaded twice, both instances
\* are RUNNING and hold a model, and the first caller holds an instance that is not
\* the registered one
C37_LoadedTwice ==
    \E m \in ModelIds, k1 \in Callers, k2 \in Callers :
        /\ StartsReturned(m)
        /\ k1 # k2 /\ {k1, k2} \subseteq LoadedInstances
        /\ pm.inst[k1].status = "running" /\ pm.inst[k2].status = "running"
        /\ pm.call[k1].got = k1 /\ pm.models[m] = k2

\* C38: after stop(model) or stop_all returns, and with no later start, that model is
\* never RUNNING and holds no loaded instance, even if the stop was issued while the
\* model was still LOADING
C38_StoppedStaysStopped ==
    \A m \in ModelIds :
        pm.stopped[m] =>
            /\ pm.models[m] = 0
            /\ \A k \in StartsOf(m) : pm.inst[k].status # "running" /\ ~pm.inst[k].llm

\* what the code does: the model stays unregistered, so is_running(model) is False,
\* but an instance whose load was under way at the stop may be RUNNING and loaded
C38_StoppedStaysUnregistered ==
    \A m \in ModelIds : pm.stopped[m] => pm.models[m] = 0

\* a stop came while the model was LOADING, and the start that was loading then
\* returned an instance that is RUNNING and holds the model
C38_RunningAfterStop ==
    \E m \in ModelIds, k \in Callers :
        /\ pm.stopped[m]
        /\ k \in StartsOf(m)
        /\ pm.call[k].pc = "done" /\ pm.call[k].got = k
        /\ pm.inst[k].status = "running" /\ pm.inst[k].llm

\* the ids of the current selection of conversation c, in the order the list tool
\* returned the items and the reply showed them
ShownList(c) == get_current_selection(SNow, c).sel

\* C39: ordinals over the current selection are stable: the k-th ordinal always refers
\* to the k-th item of the list as returned by the list tool and shown to the user,
\* also after another member of that selection has been deleted.  A step that changes
\* resolved is a resolution, and it leaves the store as it is
C39_OrdinalsAreStable ==
    [][\A k \in 1..3 :
          /\ resolved' # resolved
          /\ resolved'.utt = OrdinalUtterance(k)
          /\ resolved'.result.entity # NoEntity
          => /\ k <= Len(ShownList(curConv))
             /\ resolved'.result.entity.id = ShownList(curConv)[k]]_vars

\* what the code does: the k-th ordinal is the k-th of the members that still have a
\* row in the store
C39_OrdinalOverSurvivors ==
    [][\A k \in 1..3 :
          /\ resolved' # resolved
          /\ resolved'.utt = OrdinalUtterance(k)
          /\ resolved'.result.entity # NoEntity
          => /\ k <= Len(resolved'.items)
             /\ resolved'.result.entity = resolved'.items[k]
             /\ resolved'.items = get_selection_items(SNow, get_current_selection(SNow, curConv))]_vars

\* the first item of the list was deleted, and "the first one" is the item shown second
C39_OrdinalShifted ==
    /\ resolved.utt = OrdinalUtterance(1)
    /\ resolved.result.entity # NoEntity
    /\ Len(ShownList(resolved.conv)) >= 2
    /\ resolved.result.entity.id = ShownList(resolved.conv)[2]
    /\ resolved.result.entity.path \in files
    /\ resolved.result.confidence = "high"

\* the background tasks for download_id that were added and have not finished
ActiveTasks(download_id) ==
    {k \in Requests : /\ downloads.task[k].id = download_id
                      /\ downloads.task[k].pc \in {"scheduled", "downloading", "detecting"}}

\* C40: for a given download id (repo_id:filename) at most one download task is active
\* at any time: a download request that arrives while an earlier one for the same id
\* has not finished (in any of its states, including starting and cancelling) does not
\* start a second task
C40_OneTaskPerDownload ==
    \A download_id \in DownloadIds : Cardinality(ActiveTasks(download_id)) <= 1

\* what the code does: a request adds no task while the registered tracker is
\* downloading, detecting capabilities or registering, and in no other status refuses
C40_OneTaskWhileDownloading ==
    [][\A download_id \in DownloadIds :
          downloads'.n = downloads.n + 1 /\ downloads'.active[download_id] # downloads.active[download_id]
          => /\ StatusUnder(downloads, download_id) \notin AlreadyDownloading
             /\ downloads'.task[downloads'.n].pc = "scheduled"
             /\ ActiveTasks(download_id)' = ActiveTasks(download_id) \cup {downloads'.n}]_vars

\* a second task was added for an id whose earlier task is still downloading after a
\* cancel request, and both tasks are inside downloader.download
C40_TwoTasksDownloading ==
    \E download_id \in DownloadIds, k1 \in Requests, k2 \in Requests :
        /\ k1 < k2 /\ {k1, k2} \subseteq ActiveTasks(download_id)
        /\ downloads.task[k2].saw = "cancelling"
        /\ downloads.task[k1].pc = "downloading" /\ downloads.task[k2].pc = "downloading"

\* a second task was added while the tracker of the first was still starting
C40_TwoTasksStarting ==
    \E download_id \in DownloadIds, k1 \in Requests, k2 \in Requests :
        /\ k1 < k2 /\ {k1, k2} \subseteq ActiveTasks(download_id)
        /\ downloads.task[k2].saw = "starting"

====
